---- MODULE Spec2Model ----
(***************************************************************************)
(* NotTheNet: the service orchestrator (service_manager.py), the protocol  *)
(* stubs' start()/stop() contract (services/*.py), the traffic redirector  *)
(* (network/iptables_manager.py), privilege dropping (utils/privilege.py)  *)
(* and configuration validation (utils/validators.py).                     *)
(*                                                                         *)
(* start() and stop() are modelled step by step: one action per statement  *)
(* group of the handler, so that the order of "bind", "install rules" and  *)
(* "drop privileges" is visible in the state.  Calls are sequential: a new *)
(* call begins only when the previous one has returned or raised.          *)
(***************************************************************************)
EXTENDS Integers, Sequences, FiniteSets, TLC

VARIABLES
    cfg,        \* Config._data as read by the current/last start()
    euid,       \* effective user of the process: "root" or "user"
    table,      \* the kernel nat rule table: a sequence of rules
    saveFile,   \* _IPTABLES_SAVE_FILE: [exists, content]
    services,   \* ServiceManager._services: sequence of [name, running, port], insertion order
    iptables,   \* ServiceManager._iptables: [present, enabled, rules_applied, saved]
    running,    \* ServiceManager._running
    pc,         \* position of the call in progress, "idle" between calls
    op,         \* the call in progress or last finished: "none", "start", "stop"
    idx,        \* loop position in start()'s stub sequence / stop()'s list copy
    started,    \* start()'s local list `started`
    snapshot,   \* stop()'s list(self._services.items())
    ret,        \* outcome of the last finished call
    lastCall,   \* outcome of the call that finished before the current/last one
    attempted,  \* stubs whose start() the current/last start() has invoked
    phasesDone, \* statement groups among "iptables", "drop" the current/last start() has executed
    rulesInstalled, \* the current/last start() added a rule to the table
    hadHandle,  \* _iptables was set when the current/last stop() was called
    stopCalled, \* stubs whose stop() the current stop() has invoked
    stopRaised, \* some stub's stop() raised during the current/last stop()
    removal,    \* remove_rules() in the current/last stop(): "none" (not invoked),
                \* "noop" (invoked, table left as it was), "removed" (table changed)
    nStarts,    \* number of start() calls so far (bounded)
    faults,     \* number of failures the environment has produced so far (bounded)
    handed,     \* the service_ports dict the current/last start() passed to apply_rules()
    stub,       \* one protocol stub driven on its own: [kind, enabled, server, sock, loop, stop_event]
    sess,       \* one client session of a mail or FTP stub (see NewSession)
    dir,        \* the directory SMTP saves messages to: [other, files]
    ftp,        \* one FTP control session and its upload directory (see NewFtpSession)
    dns,        \* one DNS query and the reply built for it (see NoDns)
    http,       \* one HTTP request and the response sent for it (see NoHttp)
    pool,       \* the connections of one threaded server (see NoPool)
    text,       \* one call of sanitize_log_string: [input, max_length, output]
    valid,      \* one call of validate_config: [called, config, errors]
    conf,       \* one Config object and the dictionaries as_dict() has returned
    conn,       \* one accepted SMTP connection, its server thread and session thread
    udp,        \* one CatchAllUDPService, its caller and its serve thread
    rlog        \* what a Redirector driven on its own has done (see NoLog):
                \*   pre     the table before the last apply_rules() that was not refused
                \*   base    the table before the first such call since the tracked list was empty
                \*   want    the rules the last apply_rules() was asked for, in order
                \*   issued  the -A commands of the last apply_rules(), each with its outcome
                \*   refused the last apply_rules() returned before running a command
                \*   adds    the -A commands run since the tracked list was last emptied
                \*   removed the rules whose -A succeeded, as of the last remove_rules() that ran
                \*   dels    the rules of the -D commands of the last remove_rules()
                \*   path    the branch the last remove_rules() took

vars == <<cfg, euid, table, saveFile, services, iptables, running, pc, op, idx,
          started, snapshot, ret, lastCall, attempted, phasesDone, rulesInstalled, hadHandle,
          stopCalled, stopRaised, removal, nStarts, faults, handed, rlog,
          stub, sess, dir, ftp, dns, http, pool, text, valid, conf, conn, udp>>

-----------------------------------------------------------------------------
(* Bounds of the model *)

MaxStarts == 2      \* start() calls per behaviour
MaxRecv == 6        \* recv() steps per client session
NameLen == 3        \* characters of a DNS query name
MaxClients == 201   \* connections one server has accepted and not finished
TextLen == 4        \* characters of a string passed to sanitize_log_string
MaxDicts == 1       \* dictionaries as_dict() has returned to the client
MaxPipelined == 4   \* complete lines in one received chunk
MaxCmds == 4        \* commands per FTP control session
MaxFaults == 2      \* failures of the environment per behaviour: a failed bind, a
                    \* failed directory creation, a failing external command, a
                    \* failed privilege drop, a stub stop() that raises

-----------------------------------------------------------------------------
(* Program constants *)

MAX_PORT == 65535
DefaultCatchTcpPort == 9999
DefaultCatchUdpPort == 9998
RULE_COMMENT == "NOTTHENET"
MAX_EMAIL_SIZE_BYTES == 5 * 1024 * 1024
MAX_DISK_USAGE_BYTES == 100 * 1024 * 1024
MAX_UPLOAD_SIZE_BYTES == 50 * 1024 * 1024
FTP_MAX_DISK_USAGE_BYTES == 200 * 1024 * 1024
MAX_WORKER_THREADS == 50
MAX_CONNECTIONS == 200

\* The order in which start() constructs and starts the stubs.
StartOrder ==
    <<"dns", "http", "https", "smtp", "pop3", "imap", "ftp", "catch_tcp", "catch_udp">>

Stubs == {StartOrder[i] : i \in 1..Len(StartOrder)}

\* Sections validate_config() loops over, in its order.
ValidatedServices == <<"http", "https", "smtp", "pop3", "imap", "ftp", "dns">>

\* _apply_iptables' port_map, in its order, with the `or` defaults.
PortMapOrder == <<"http", "https", "smtp", "pop3", "imap", "ftp">>

DefaultPort(svc) ==
    CASE svc = "dns"   -> 53
      [] svc = "http"  -> 80
      [] svc = "https" -> 443
      [] svc = "smtp"  -> 25
      [] svc = "pop3"  -> 110
      [] svc = "imap"  -> 143
      [] svc = "ftp"   -> 21

-----------------------------------------------------------------------------
(* Configuration.  A section's "enabled" key is "true", "false" or          *)
(* "missing" (dict.get then applies the caller's default).                  *)

ValidIPs == {"0.0.0.0", "127.0.0.1"}

\* utils/validators.py
validate_ip(ip) == ip \in ValidIPs

validate_bind_ip(ip) == ip \in {"0.0.0.0", "::"} \/ validate_ip(ip)

\* validate_port returns (ok, int_port): here <<ok, port>>, port 0 standing for None
validate_port(port) ==
    IF 1 <= port /\ port <= MAX_PORT THEN <<TRUE, port>> ELSE <<FALSE, 0>>

\* section.get("enabled", default)
GetEnabled(c, svc, default) ==
    IF c.enabled[svc] = "missing" THEN default ELSE c.enabled[svc] = "true"

\* a validate_config that returns at the first port it rejects
RECURSIVE PortErrorsFirstOnly(_, _)
PortErrorsFirstOnly(c, i) ==
    IF i > Len(ValidatedServices) THEN <<>>
    ELSE LET service == ValidatedServices[i]
             bad == GetEnabled(c, service, FALSE)
                    /\ ~validate_port(c.port[service])[1]
         IN  IF bad THEN <<service>> ELSE PortErrorsFirstOnly(c, i + 1)

RECURSIVE PortErrors(_, _)
PortErrors(c, i) ==
    IF i > Len(ValidatedServices) THEN <<>>
    ELSE LET service == ValidatedServices[i]
             bad == GetEnabled(c, service, FALSE)
                    /\ ~validate_port(c.port[service])[1]
         IN  (IF bad THEN <<service>> ELSE <<>>) \o PortErrors(c, i + 1)

\* validate_config: the list of errors, each named by the key it is about
validate_config(c) ==
    (IF validate_bind_ip(c.bind_ip) THEN <<>> ELSE <<"general.bind_ip">>)
    \o (IF validate_ip(c.redirect_ip) THEN <<>> ELSE <<"general.redirect_ip">>)
    \o PortErrors(c, 1)

\* The configurations the orchestrator is run with: all stubs enabled (with
\* and without auto_iptables), DNS alone, and two that fail validation.
EnabledAll == [s \in Stubs \ {"catch_tcp", "catch_udp"} |-> "true"]

EnabledDns == [s \in Stubs \ {"catch_tcp", "catch_udp"} |->
                IF s = "dns" THEN "true" ELSE "false"]

MkConfig(bindIp, httpPort, en, auto, catchTcp, catchUdp) ==
    [ bind_ip |-> bindIp,
      redirect_ip |-> "127.0.0.1",
      auto_iptables |-> auto,
      enabled |-> en,
      port |-> [s \in Stubs \ {"catch_tcp", "catch_udp"} |->
                    IF s = "http" THEN httpPort ELSE DefaultPort(s)],
      redirect_tcp |-> catchTcp,
      redirect_udp |-> catchUdp,
      tcp_port |-> DefaultCatchTcpPort,
      udp_port |-> DefaultCatchUdpPort,
      excluded_ports |-> <<22>>,
      save_emails |-> TRUE,
      allow_uploads |-> TRUE ]

Configs ==
    { MkConfig("0.0.0.0", DefaultPort("http"), EnabledAll, TRUE, TRUE, TRUE),
      MkConfig("0.0.0.0", DefaultPort("http"), EnabledAll, FALSE, TRUE, TRUE),
      MkConfig("0.0.0.0", DefaultPort("http"), EnabledDns, TRUE, FALSE, FALSE),
      MkConfig("bad", DefaultPort("http"), EnabledAll, TRUE, TRUE, TRUE),
      MkConfig("0.0.0.0", MAX_PORT + 1, EnabledAll, TRUE, TRUE, TRUE) }

-----------------------------------------------------------------------------
(* Traffic redirector: network/iptables_manager.py.  One nat chain; a rule  *)
(* is the argument list of its "iptables -A" command.                        *)

Rule(proto, dport, target, to) ==
    [proto |-> proto, dport |-> dport, target |-> target, to |-> to,
     comment |-> RULE_COMMENT]

\* A rule some other program put in the table before the first start().
ExtRule == [proto |-> "tcp", dport |-> 8080, target |-> "ACCEPT", to |-> 0,
            comment |-> ""]

NoFile == [exists |-> FALSE, content |-> <<>>]

\* IPTablesManager.__init__; NoManager stands for ServiceManager._iptables = None
NewManager(c) ==
    [present |-> TRUE, enabled |-> c.auto_iptables, rules_applied |-> <<>>,
     saved |-> FALSE]

NoManager ==
    [present |-> FALSE, enabled |-> FALSE, rules_applied |-> <<>>, saved |-> FALSE]

RECURSIVE PortRules(_, _, _)
\* the "redirect known service ports" loop for one protocol's port list
PortRules(proto, ports, i) ==
    IF i > Len(ports) THEN <<>>
    ELSE LET v == validate_port(ports[i])
         IN  (IF v[1] THEN <<Rule(proto, v[2], "REDIRECT", v[2])>> ELSE <<>>)
             \o PortRules(proto, ports, i + 1)

RECURSIVE ExclRules(_, _)
ExclRules(excluded, i) ==
    IF i > Len(excluded) THEN <<>>
    ELSE LET ep == validate_port(excluded[i])[2]
         IN  (IF ep # 0 THEN <<Rule("tcp", ep, "RETURN", 0)>> ELSE <<>>)
             \o ExclRules(excluded, i + 1)

CatchAllRule(catch_all_tcp_port) ==
    LET cat_port == validate_port(catch_all_tcp_port)[2]
    IN  IF cat_port # 0 THEN <<Rule("tcp", 0, "REDIRECT", cat_port)>> ELSE <<>>

RulesToAddCatchAllFirst(service_ports, catch_all_tcp_port, excluded_ports) ==
    PortRules("tcp", service_ports.tcp, 1)
    \o PortRules("udp", service_ports.udp, 1)
    \o CatchAllRule(catch_all_tcp_port)
    \o ExclRules(excluded_ports, 1)

\* The rules apply_rules() tries to add, in the order it issues the commands:
\* service ports (dict order: tcp, then udp), exclusions, catch-all.
RulesToAdd(service_ports, catch_all_tcp_port, excluded_ports) ==
    PortRules("tcp", service_ports.tcp, 1)
    \o PortRules("udp", service_ports.udp, 1)
    \o ExclRules(excluded_ports, 1)
    \o CatchAllRule(catch_all_tcp_port)

RECURSIVE SucceededUntilFailure(_, _, _)
SucceededUntilFailure(rules, fail, i) ==
    IF i > Len(rules) \/ i \in fail THEN <<>>
    ELSE <<rules[i]>> \o SucceededUntilFailure(rules, fail, i + 1)

RECURSIVE Succeeded(_, _, _)
\* _add_rule over the commands: those whose index is not in `fail` exit 0
Succeeded(rules, fail, i) ==
    IF i > Len(rules) THEN <<>>
    ELSE (IF i \in fail THEN <<>> ELSE <<rules[i]>>) \o Succeeded(rules, fail, i + 1)

\* _save_rules: env.save says whether iptables-save ran and the file was written
SaveRules(tbl, file, env) ==
    IF env.save THEN [ok |-> TRUE, file |-> [exists |-> TRUE, content |-> tbl]]
    ELSE [ok |-> FALSE, file |-> file]

RefusesWithoutRootCheck(mgr, uid, env) == ~mgr.enabled \/ ~env.precheck

\* apply_rules, lines 166-186: the early `return False` cases
Refuses(mgr, uid, env) == ~mgr.enabled \/ uid # "root" \/ ~env.precheck

\* apply_rules: env = [precheck, save, fail] are the outcomes of the external
\* commands (iptables --version and the interface check; iptables-save; the
\* set of failing -A commands).
\* `issued` lists the -A commands run, in order, each with its outcome.
apply_rules(mgr, tbl, file, uid, service_ports, catch_all_tcp_port, excluded_ports, env) ==
    IF Refuses(mgr, uid, env)
    THEN [ret |-> FALSE, mgr |-> mgr, table |-> tbl, file |-> file,
          refused |-> TRUE, issued |-> <<>>]
    ELSE LET sv == SaveRules(tbl, file, env)
             cands == RulesToAdd(service_ports, catch_all_tcp_port, excluded_ports)
             added == Succeeded(cands, env.fail, 1)
             ok_count == Len(SelectSeq(added, LAMBDA r : r.target = "REDIRECT"))
         IN  [ret |-> ok_count > 0,
              mgr |-> [mgr EXCEPT !.saved = sv.ok,
                                  !.rules_applied = mgr.rules_applied \o added],
              table |-> tbl \o added,
              file |-> sv.file,
              refused |-> FALSE,
              issued |-> [i \in 1..Len(cands) |->
                            [rule |-> cands[i], ok |-> i \notin env.fail]]]

DelEvery(tbl, r) == SelectSeq(tbl, LAMBDA x : x # r)

RECURSIVE DelFirst(_, _)
\* iptables -D: deletes the first rule of the chain that matches, if any
DelFirst(tbl, r) ==
    IF tbl = <<>> THEN <<>>
    ELSE IF Head(tbl) = r THEN Tail(tbl)
    ELSE <<Head(tbl)>> \o DelFirst(Tail(tbl), r)

RECURSIVE Reversed(_)
\* reversed(self._rules_applied)
Reversed(rules) ==
    IF rules = <<>> THEN <<>>
    ELSE <<rules[Len(rules)]>> \o Reversed(SubSeq(rules, 1, Len(rules) - 1))

RECURSIVE DelEach(_, _)
\* one _del_rule per element of `order`, in that order
DelEach(tbl, order) ==
    IF order = <<>> THEN tbl
    ELSE DelEach(DelFirst(tbl, Head(order)), Tail(order))

\* for rule in reversed(self._rules_applied): self._del_rule(rule)
DelAllReversed(tbl, rules) == DelEach(tbl, Reversed(rules))

\* _restore_rules: env.restore says whether iptables-restore exists and exits 0
RestoreRules(tbl, file, env) ==
    IF file.exists /\ env.restore
    THEN [ok |-> TRUE, table |-> file.content, file |-> NoFile]
    ELSE [ok |-> FALSE, table |-> tbl, file |-> file]

\* remove_rules.  `path` names the branch taken ("empty": nothing tracked,
\* "refused": not root, "restore", "fallback"), `deleted` lists the rules of
\* the -D commands run, in order.
remove_rules(mgr, tbl, file, uid, env) ==
    IF mgr.rules_applied = <<>>
    THEN [mgr |-> mgr, table |-> tbl, file |-> file, path |-> "empty", deleted |-> <<>>]
    ELSE IF uid # "root"
    THEN [mgr |-> mgr, table |-> tbl, file |-> file, path |-> "refused", deleted |-> <<>>]
    ELSE LET rs == IF mgr.saved THEN RestoreRules(tbl, file, env)
                   ELSE [ok |-> FALSE, table |-> tbl, file |-> file]
         IN  IF rs.ok
             THEN [mgr |-> [mgr EXCEPT !.rules_applied = <<>>],
                   table |-> rs.table, file |-> rs.file,
                   path |-> "restore", deleted |-> <<>>]
             ELSE [mgr |-> [mgr EXCEPT !.rules_applied = <<>>],
                   table |-> DelAllReversed(tbl, mgr.rules_applied),
                   file |-> file,
                   path |-> "fallback", deleted |-> Reversed(mgr.rules_applied)]

-----------------------------------------------------------------------------
(* Protocol stubs, as the orchestrator sees them: start() -> bool, stop(),  *)
(* and the `running` property.                                              *)

\* <Stub>.__init__: self.enabled
StubEnabled(c, s) ==
    CASE s = "catch_tcp" -> c.redirect_tcp
      [] s = "catch_udp" -> c.redirect_udp
      [] OTHER -> GetEnabled(c, s, TRUE)

\* <Stub>.__init__: self.port = int(config.get("port", <default>))
StubPort(c, s) ==
    CASE s = "catch_tcp" -> c.tcp_port
      [] s = "catch_udp" -> c.udp_port
      [] OTHER -> c.port[s]

\* The protocols on which a started stub listens on its port: DNSService
\* starts a UDP and a TCP server, CatchAllUDPService binds a datagram socket,
\* every other stub a TCP server.
StubProtos(s) ==
    CASE s = "dns" -> {"tcp", "udp"}
      [] s = "catch_udp" -> {"udp"}
      [] OTHER -> {"tcp"}

\* Outcomes of <Stub>.start().  A disabled stub returns False.  An enabled one
\* returns True, or False when the bind (or, for https, the certificate or TLS
\* setup) fails with OSError.  SMTPService.start and FTPService.start call
\* os.makedirs before their try block, so its OSError leaves start() raised.
StubStartOutcomes(c, s) ==
    IF ~StubEnabled(c, s) THEN {"false"}
    ELSE {"true", "false"}
         \cup (IF (s = "smtp" /\ c.save_emails) \/ (s = "ftp" /\ c.allow_uploads)
               THEN {"raise"} ELSE {})

\* Outcomes of <Stub>.stop(): DNSService.stop swallows every exception of its
\* servers; the others call shutdown()/server_close()/close() unguarded.
StubStopOutcomes(s) == IF s = "dns" THEN {"ok"} ELSE {"ok", "raise"}

-----------------------------------------------------------------------------
(* Service orchestrator: service_manager.py                                 *)

Names(svcs) == {svcs[i].name : i \in 1..Len(svcs)}

\* self._services[name] = stub: a new key is appended, an existing key keeps
\* its position and gets the new object
PutService(svcs, name, port) ==
    IF name \in Names(svcs)
    THEN [i \in 1..Len(svcs) |->
            IF svcs[i].name = name
            THEN [name |-> name, running |-> TRUE, port |-> port] ELSE svcs[i]]
    ELSE Append(svcs, [name |-> name, running |-> TRUE, port |-> port])

\* status(): {name: svc.running}, as the set of pairs
status == {<<services[i].name, services[i].running>> : i \in 1..Len(services)}

\* config.get(section, "port") or default
PortOr(p, default) == IF p = 0 THEN default ELSE p

RECURSIVE BoundPortsConfigured(_, _, _)
BoundPortsConfigured(c, svcs, i) ==
    IF i > Len(PortMapOrder) THEN <<>>
    ELSE <<PortOr(c.port[PortMapOrder[i]], DefaultPort(PortMapOrder[i]))>>
         \o BoundPortsConfigured(c, svcs, i + 1)

RECURSIVE BoundPorts(_, _, _)
\* for svc, (proto, port) in port_map.items(): if svc in self._services: append
BoundPorts(c, svcs, i) ==
    IF i > Len(PortMapOrder) THEN <<>>
    ELSE LET svc == PortMapOrder[i]
         IN  (IF svc \in Names(svcs) THEN <<PortOr(c.port[svc], DefaultPort(svc))>>
              ELSE <<>>)
             \o BoundPorts(c, svcs, i + 1)

\* _apply_iptables: the service_ports dict it hands to apply_rules
ServicePorts(c, svcs) ==
    LET dns_port == PortOr(c.port["dns"], DefaultPort("dns"))
    IN  [tcp |-> <<dns_port>> \o BoundPorts(c, svcs, 1), udp |-> <<dns_port>>]

\* no apply_rules() call made (yet) by the current/last start()
NoPorts == [given |-> FALSE, tcp |-> <<>>, udp |-> <<>>]

\* start(), line 109: whether the Redirector is invoked
InvokesRedirector(c, startedList) == c.auto_iptables

\* _apply_iptables: result of apply_rules on a fresh IPTablesManager
ApplyIptables(c, svcs, tbl, file, uid, env) ==
    apply_rules(NewManager(c), tbl, file, uid, ServicePorts(c, svcs),
                c.tcp_port, c.excluded_ports, env)

\* drop_privileges(): the effective user afterwards.  As root the lookup of
\* nobody/nogroup or the setuid may fail, leaving root.
DropOutcomes(uid) == IF uid = "root" THEN {"root", "user"} ELSE {uid}

StartPhasesDropFirst == <<"validate", "bind", "drop", "iptables", "finish">>

\* start(): its statement groups in program order (validate 42-46, stubs
\* 60-106, rules 108-110, privileges 112-113, result 115-117)
StartPhases == <<"validate", "bind", "iptables", "drop", "finish">>

StopPhasesRulesFirst == <<"stop_rules", "stop_stubs", "stop_finish">>

\* stop(): its statement groups in program order (stub loop and clear 151-156,
\* rule removal 158-160, flag 162-163)
StopPhases == <<"stop_stubs", "stop_rules", "stop_finish">>

\* the statement group after p in `phases`; "idle" after the last (return)
PhaseAfter(phases, p) ==
    LET i == CHOOSE k \in 1..Len(phases) : phases[k] = p
    IN  IF i = Len(phases) THEN "idle" ELSE phases[i + 1]

StartRejectsMissingReturn(c) == FALSE

\* start(), lines 42-46: `if errors: ... return False`
StartRejects(c) == validate_config(c) # <<>>

\* start(), lines 63-106: after stub number i returned `outcome` ("true" or
\* "false"), the next stub is started whatever the outcome; a raised
\* exception is not caught and leaves start()
BindNext(outcome, i) ==
    IF outcome = "raise" THEN [pc |-> "idle", idx |-> 0, raised |-> TRUE]
    ELSE IF i = Len(StartOrder)
         THEN [pc |-> PhaseAfter(StartPhases, "bind"), idx |-> 0, raised |-> FALSE]
         ELSE [pc |-> "bind", idx |-> i + 1, raised |-> FALSE]

StartResultFromCollection(startedList, svcs) == Len(svcs) > 0

\* start(), lines 115-117: the value stored in _running and returned
StartResult(startedList, svcs) == Len(startedList) > 0

StopOnRaisePropagates(i) == [pc |-> "idle", idx |-> 0, raised |-> TRUE]

\* stop(), lines 152-155: when a stub's stop() raises, the except clause logs
\* and the loop goes on with the next stub
StopOnRaise(i) == [pc |-> "stop_stubs", idx |-> i + 1, raised |-> FALSE]

HandleGuardMissing(mgr) == TRUE

\* stop(), line 158: `if self._iptables:`
HandleGuard(mgr) == mgr.present


Observable == <<services, iptables, running, table, saveFile, euid>>

EnterIdx(p) == IF p \in {"bind", "stop_stubs"} THEN 1 ELSE 0

\* Outcomes of the external commands of one apply_rules() call that fit in
\* the failure budget `left`; when apply_rules() returns before running any
\* command there is nothing to choose.
ApplyEnvs(c, svcs, uid, left) ==
    LET n == Len(RulesToAdd(ServicePorts(c, svcs), c.tcp_port, c.excluded_ports))
        all == { [precheck |-> p, save |-> sv, fail |-> f] :
                    p \in BOOLEAN, sv \in BOOLEAN,
                    f \in {x \in SUBSET (1..n) : Cardinality(x) <= left} }
        none == [precheck |-> TRUE, save |-> TRUE, fail |-> {}]
    IN  IF uid # "root" THEN {none}
        ELSE {e \in all : ~e.precheck => (e.save /\ e.fail = {})}

ApplyCost(env) ==
    (IF env.precheck THEN 0 ELSE 1) + (IF env.save THEN 0 ELSE 1)
    + Cardinality(env.fail)

\* Outcomes of iptables-restore in one remove_rules() call
RemoveEnvs(mgr, uid) ==
    IF mgr.rules_applied # <<>> /\ uid = "root" /\ mgr.saved
    THEN { [restore |-> r] : r \in BOOLEAN }
    ELSE { [restore |-> TRUE] }

RemoveCost(env) == IF env.restore THEN 0 ELSE 1

StubStartCost(c, s, outcome) ==
    IF StubEnabled(c, s) /\ outcome # "true" THEN 1 ELSE 0

\* no stub, session or save directory under study
NoStub ==
    [kind |-> "none", enabled |-> FALSE, server |-> FALSE, sock |-> FALSE,
     loop |-> FALSE, stop_event |-> FALSE]

NoSession ==
    [proto |-> "none", open |-> FALSE, save_dir |-> FALSE, buf |-> 0,
     data_mode |-> FALSE, lines |-> 0, current_size |-> 0, recvs |-> 0,
     done |-> 0, expect |-> 0]

NoDir == [other |-> 0, files |-> <<>>]

\* no FTP session, DNS query, HTTP request, server pool or sanitizer call
NoFtp == [open |-> FALSE]
NoDns == [asked |-> FALSE, records |-> <<>>, handle_ptr |-> FALSE,
          qname |-> <<>>, qtype |-> "A", answers |-> <<>>]
NoHttp == [asked |-> FALSE, code |-> 200, body |-> <<>>, server_header |-> "",
           spoof_ip |-> "", method |-> "", host |-> <<>>, path |-> "",
           response |-> [status |-> 0, headers |-> <<>>, body |-> <<>>]]
NoPool == [kind |-> "none", queue |-> 0, threads |-> 0, active |-> 0]
NoValid == [called |-> FALSE]
NoConf == [built |-> FALSE]
NoConn == [accepted |-> FALSE]
NoUdp == [built |-> FALSE]
NoText == [called |-> FALSE, kind |-> "none", input |-> <<>>, max_length |-> 0,
           output |-> <<>>, sent |-> <<>>]

\* nothing run yet by a Redirector driven on its own
NoLog ==
    [pre |-> <<>>, base |-> <<>>, want |-> <<>>, issued |-> <<>>, refused |-> FALSE,
     adds |-> <<>>, removed |-> <<>>, dels |-> <<>>, path |-> "none"]

-----------------------------------------------------------------------------
(* Initial state: a freshly constructed ServiceManager (lines 29-33)        *)

Init ==
    /\ cfg \in Configs
    /\ euid \in {"root", "user"}
    /\ table = <<ExtRule>>
    /\ saveFile = NoFile
    /\ services = <<>>
    /\ iptables = NoManager
    /\ running = FALSE
    /\ pc = "idle"
    /\ op = "none"
    /\ idx = 0
    /\ started = <<>>
    /\ snapshot = <<>>
    /\ ret = "none"
    /\ lastCall = "none"
    /\ attempted = {}
    /\ phasesDone = {}
    /\ rulesInstalled = FALSE
    /\ hadHandle = FALSE
    /\ stopCalled = {}
    /\ stopRaised = FALSE
    /\ removal = "none"
    /\ nStarts = 0
    /\ faults = 0
    /\ handed = NoPorts
    /\ rlog = NoLog
    /\ stub = NoStub
    /\ sess = NoSession
    /\ dir = NoDir
    /\ ftp = NoFtp
    /\ dns = NoDns
    /\ http = NoHttp
    /\ pool = NoPool
    /\ text = NoText
    /\ valid = NoValid
    /\ conf = NoConf
    /\ conn = NoConn
    /\ udp = NoUdp

-----------------------------------------------------------------------------
(* start().  The configuration may have been edited since the last call     *)
(* (Config.set / set_section); start() reads it afresh.                     *)

CallStart ==
    /\ pc = "idle"
    /\ nStarts < MaxStarts
    /\ nStarts' = nStarts + 1
    /\ cfg' \in Configs
    /\ pc' = StartPhases[1]
    /\ idx' = EnterIdx(StartPhases[1])
    /\ op' = "start"
    /\ lastCall' = ret
    /\ ret' = "pending"
    /\ started' = <<>>
    /\ attempted' = {}
    /\ phasesDone' = {}
    /\ rulesInstalled' = FALSE
    /\ hadHandle' = FALSE
    /\ snapshot' = <<>>
    /\ stopCalled' = {}
    /\ stopRaised' = FALSE
    /\ removal' = "none"
    /\ handed' = NoPorts
    /\ UNCHANGED <<euid, table, saveFile, services, iptables, running, faults, rlog, stub, sess, dir, ftp, dns, http, pool, text, valid, conf, conn, udp>>

StartValidate ==
    /\ pc = "validate"
    /\ IF StartRejects(cfg)
       THEN /\ pc' = "idle"
            /\ idx' = 0
            /\ ret' = "false"
       ELSE /\ pc' = PhaseAfter(StartPhases, "validate")
            /\ idx' = EnterIdx(pc')
            /\ ret' = ret
    /\ UNCHANGED <<cfg, euid, table, saveFile, services, iptables, running, op,
                   started, snapshot, lastCall, attempted, phasesDone, rulesInstalled, hadHandle,
                   stopCalled, stopRaised, removal, nStarts, faults, handed, rlog, stub, sess, dir, ftp, dns, http, pool, text, valid, conf, conn, udp>>

StartStub ==
    /\ pc = "bind"
    /\ LET s == StartOrder[idx]
       IN  \E o \in StubStartOutcomes(cfg, s) :
             LET n == BindNext(o, idx)
             IN  /\ faults + StubStartCost(cfg, s, o) <= MaxFaults
                 /\ faults' = faults + StubStartCost(cfg, s, o)
                 /\ attempted' = attempted \cup {s}
                 /\ services' = IF o = "true" THEN PutService(services, s, StubPort(cfg, s))
                                ELSE services
                 /\ started' = IF o = "true" THEN Append(started, s) ELSE started
                 /\ pc' = n.pc
                 /\ idx' = n.idx
                 /\ ret' = IF n.raised THEN "raised"
                           ELSE IF n.pc = "idle" THEN "false" ELSE ret
    /\ UNCHANGED <<cfg, euid, table, saveFile, iptables, running, op, snapshot,
                   lastCall, phasesDone, rulesInstalled, hadHandle, stopCalled, stopRaised, removal,
                   nStarts, handed, rlog, stub, sess, dir, ftp, dns, http, pool, text, valid, conf, conn, udp>>

StartIptables ==
    /\ pc = "iptables"
    /\ phasesDone' = phasesDone \cup {"iptables"}
    /\ hadHandle' = hadHandle
    /\ IF InvokesRedirector(cfg, started)
       THEN \E env \in ApplyEnvs(cfg, services, euid, MaxFaults - faults) :
              LET r == ApplyIptables(cfg, services, table, saveFile, euid, env)
              IN  /\ faults + ApplyCost(env) <= MaxFaults
                  /\ faults' = faults + ApplyCost(env)
                  /\ table' = r.table
                  /\ saveFile' = r.file
                  /\ iptables' = r.mgr
                  /\ handed' = [given |-> TRUE,
                                tcp |-> ServicePorts(cfg, services).tcp,
                                udp |-> ServicePorts(cfg, services).udp]
       ELSE UNCHANGED <<table, saveFile, iptables, faults, handed>>
    /\ rulesInstalled' = (table' # table)
    /\ pc' = PhaseAfter(StartPhases, "iptables")
    /\ idx' = EnterIdx(pc')
    /\ UNCHANGED <<cfg, euid, services, running, op, started, snapshot, ret,
                   lastCall, attempted, stopCalled, stopRaised, removal,
                   nStarts, rlog, stub, sess, dir, ftp, dns, http, pool, text, valid, conf, conn, udp>>

StartDrop ==
    /\ pc = "drop"
    /\ euid' \in DropOutcomes(euid)
    /\ faults' = IF euid = "root" /\ euid' = "root" THEN faults + 1 ELSE faults
    /\ faults' <= MaxFaults
    /\ phasesDone' = phasesDone \cup {"drop"}
    /\ pc' = PhaseAfter(StartPhases, "drop")
    /\ idx' = EnterIdx(pc')
    /\ UNCHANGED <<cfg, table, saveFile, services, iptables, running, op, started,
                   snapshot, ret, lastCall, attempted, rulesInstalled, hadHandle, stopCalled,
                   stopRaised, removal, nStarts, handed, rlog, stub, sess, dir, ftp, dns, http, pool, text, valid, conf, conn, udp>>

StartFinish ==
    /\ pc = "finish"
    /\ running' = StartResult(started, services)
    /\ ret' = IF running' THEN "true" ELSE "false"
    /\ pc' = PhaseAfter(StartPhases, "finish")
    /\ idx' = EnterIdx(pc')
    /\ UNCHANGED <<cfg, euid, table, saveFile, services, iptables, op, started,
                   snapshot, lastCall, attempted, phasesDone, rulesInstalled, hadHandle, stopCalled,
                   stopRaised, removal, nStarts, faults, handed, rlog, stub, sess, dir, ftp, dns, http, pool, text, valid, conf, conn, udp>>

-----------------------------------------------------------------------------
(* stop()                                                                   *)

CallStop ==
    /\ pc = "idle"
    /\ pc' = StopPhases[1]
    /\ idx' = EnterIdx(StopPhases[1])
    /\ op' = "stop"
    /\ lastCall' = ret
    /\ ret' = "pending"
    /\ snapshot' = services
    /\ stopCalled' = {}
    /\ stopRaised' = FALSE
    /\ removal' = "none"
    /\ started' = <<>>
    /\ attempted' = {}
    /\ phasesDone' = {}
    /\ rulesInstalled' = FALSE
    /\ hadHandle' = iptables.present
    /\ handed' = NoPorts
    /\ UNCHANGED <<cfg, euid, table, saveFile, services, iptables, running, nStarts, faults, rlog, stub, sess, dir, ftp, dns, http, pool, text, valid, conf, conn, udp>>

\* svc.stop() of a stub that returns normally leaves its `running` False
MarkStopped(svcs, name) ==
    [i \in 1..Len(svcs) |->
        IF svcs[i].name = name THEN [svcs[i] EXCEPT !.running = FALSE] ELSE svcs[i]]

StopStub ==
    /\ pc = "stop_stubs"
    /\ idx <= Len(snapshot)
    /\ LET s == snapshot[idx].name
       IN  \E o \in StubStopOutcomes(s) :
             /\ stopCalled' = stopCalled \cup {s}
             /\ faults' = IF o = "ok" THEN faults ELSE faults + 1
             /\ faults' <= MaxFaults
             /\ IF o = "ok"
                THEN /\ services' = MarkStopped(services, s)
                     /\ stopRaised' = stopRaised
                     /\ pc' = pc
                     /\ idx' = idx + 1
                     /\ ret' = ret
                ELSE LET n == StopOnRaise(idx)
                     IN  /\ services' = services
                         /\ stopRaised' = TRUE
                         /\ pc' = n.pc
                         /\ idx' = n.idx
                         /\ ret' = IF n.raised THEN "raised" ELSE ret
    /\ UNCHANGED <<cfg, euid, table, saveFile, iptables, running, op, started,
                   snapshot, lastCall, attempted, phasesDone, rulesInstalled, hadHandle, removal,
                   nStarts, handed, rlog, stub, sess, dir, ftp, dns, http, pool, text, valid, conf, conn, udp>>

\* end of the loop, then self._services.clear()
StopClear ==
    /\ pc = "stop_stubs"
    /\ idx > Len(snapshot)
    /\ services' = <<>>
    /\ pc' = PhaseAfter(StopPhases, "stop_stubs")
    /\ idx' = 0
    /\ UNCHANGED <<cfg, euid, table, saveFile, iptables, running, op, started,
                   snapshot, ret, lastCall, attempted, phasesDone, rulesInstalled, hadHandle, stopCalled,
                   stopRaised, removal, nStarts, faults, handed, rlog, stub, sess, dir, ftp, dns, http, pool, text, valid, conf, conn, udp>>

StopRules ==
    /\ pc = "stop_rules"
    /\ IF HandleGuard(iptables)
       THEN IF iptables.present
            THEN \E env \in RemoveEnvs(iptables, euid) :
                   LET r == remove_rules(iptables, table, saveFile, euid, env)
                   IN  /\ faults + RemoveCost(env) <= MaxFaults
                       /\ faults' = faults + RemoveCost(env)
                       /\ table' = r.table
                       /\ saveFile' = r.file
                       /\ iptables' = NoManager
                       /\ removal' = IF r.table # table THEN "removed" ELSE "noop"
                       /\ pc' = PhaseAfter(StopPhases, "stop_rules")
                       /\ ret' = ret
            ELSE \* None has no remove_rules: AttributeError leaves stop()
                 /\ pc' = "idle"
                 /\ ret' = "raised"
                 /\ UNCHANGED <<table, saveFile, iptables, removal, faults>>
       ELSE /\ pc' = PhaseAfter(StopPhases, "stop_rules")
            /\ ret' = ret
            /\ UNCHANGED <<table, saveFile, iptables, removal, faults>>
    /\ idx' = EnterIdx(pc')
    /\ UNCHANGED <<cfg, euid, services, running, op, started, snapshot, lastCall,
                   attempted, phasesDone, rulesInstalled, hadHandle, stopCalled, stopRaised, nStarts, handed, rlog, stub, sess, dir, ftp, dns, http, pool, text, valid, conf, conn, udp>>

StopFinish ==
    /\ pc = "stop_finish"
    /\ running' = FALSE
    /\ ret' = "done"
    /\ pc' = PhaseAfter(StopPhases, "stop_finish")
    /\ idx' = 0
    /\ snapshot' = <<>>
    /\ stopCalled' = {}
    /\ UNCHANGED <<cfg, euid, table, saveFile, services, iptables, op, started,
                   lastCall, attempted, phasesDone, rulesInstalled, hadHandle, stopRaised, removal,
                   nStarts, faults, handed, rlog, stub, sess, dir, ftp, dns, http, pool, text, valid, conf, conn, udp>>

Next ==
    \/ CallStart \/ StartValidate \/ StartStub \/ StartIptables \/ StartDrop
    \/ StartFinish
    \/ CallStop \/ StopStub \/ StopClear \/ StopRules \/ StopFinish

Spec == Init /\ [][Next]_vars

-----------------------------------------------------------------------------
(* The Redirector driven on its own: one IPTablesManager, apply_rules() and  *)
(* remove_rules() called in any order, and the caller's privilege drop.     *)
(* The arguments of apply_rules() are fixed per behaviour: service_ports in *)
(* `handed`, the catch-all port and the exclusions in `cfg`.                *)

BaseConfig == MkConfig("0.0.0.0", DefaultPort("http"), EnabledAll, TRUE, TRUE, TRUE)

RedirectorConfigs ==
    { BaseConfig,
      [BaseConfig EXCEPT !.auto_iptables = FALSE],
      [BaseConfig EXCEPT !.tcp_port = 0],
      [BaseConfig EXCEPT !.excluded_ports = <<0, 22>>] }

RedirectorPortSets ==
    { [given |-> TRUE, tcp |-> <<DefaultPort("dns"), DefaultPort("http")>>,
       udp |-> <<DefaultPort("dns")>>],
      [given |-> TRUE, tcp |-> <<DefaultPort("dns")>>, udp |-> <<DefaultPort("dns")>>],
      [given |-> TRUE, tcp |-> <<DefaultPort("dns"), MAX_PORT + 1>>, udp |-> <<>>] }

\* Rule tables found at start: empty, another program's rule, and another
\* program's rule after a tagged DNS redirect an earlier run left behind.
InitialTables ==
    { <<>>, <<ExtRule>>,
      <<Rule("tcp", DefaultPort("dns"), "REDIRECT", DefaultPort("dns")), ExtRule>> }

\* Outcomes of the external commands of one apply_rules() call with n -A
\* commands, within the failure budget `left`
CommandOutcomes(n, left) ==
    { e \in [precheck : BOOLEAN, save : BOOLEAN,
             fail : {x \in SUBSET (1..n) : Cardinality(x) <= left}] :
        ~e.precheck => (e.save /\ e.fail = {}) }

\* the rules of the -A commands of `log` that succeeded, in order
OkRules(log) ==
    LET oks == SelectSeq(log, LAMBDA e : e.ok)
    IN  [i \in 1..Len(oks) |-> oks[i].rule]

RedirectorInit ==
    /\ cfg \in RedirectorConfigs
    /\ handed \in RedirectorPortSets
    /\ euid \in {"root", "user"}
    /\ table \in InitialTables
    /\ saveFile = NoFile
    /\ iptables = NewManager(cfg)
    /\ services = <<>>
    /\ running = FALSE
    /\ pc = "idle"
    /\ op = "none"
    /\ idx = 0
    /\ started = <<>>
    /\ snapshot = <<>>
    /\ ret = "none"
    /\ lastCall = "none"
    /\ attempted = {}
    /\ phasesDone = {}
    /\ rulesInstalled = FALSE
    /\ hadHandle = FALSE
    /\ stopCalled = {}
    /\ stopRaised = FALSE
    /\ removal = "none"
    /\ nStarts = 0
    /\ faults = 0
    /\ rlog = NoLog
    /\ stub = NoStub
    /\ sess = NoSession
    /\ dir = NoDir
    /\ ftp = NoFtp
    /\ dns = NoDns
    /\ http = NoHttp
    /\ pool = NoPool
    /\ text = NoText
    /\ valid = NoValid
    /\ conf = NoConf
    /\ conn = NoConn
    /\ udp = NoUdp

\* iptables.apply_rules(service_ports, catch_tcp_port, excluded)
RedirectorApply ==
    /\ nStarts < MaxStarts
    /\ nStarts' = nStarts + 1
    /\ LET want == RulesToAdd(handed, cfg.tcp_port, cfg.excluded_ports)
           envs == IF ~iptables.enabled \/ euid # "root"
                   THEN {[precheck |-> TRUE, save |-> TRUE, fail |-> {}]}
                   ELSE CommandOutcomes(Len(want), MaxFaults - faults)
       IN  \E env \in envs :
             LET r == apply_rules(iptables, table, saveFile, euid, handed,
                                  cfg.tcp_port, cfg.excluded_ports, env)
             IN  /\ faults + ApplyCost(env) <= MaxFaults
                 /\ faults' = faults + ApplyCost(env)
                 /\ table' = r.table
                 /\ saveFile' = r.file
                 /\ iptables' = r.mgr
                 /\ ret' = IF r.ret THEN "true" ELSE "false"
                 /\ rlog' = [rlog EXCEPT
                        !.pre = IF r.refused THEN @ ELSE table,
                        !.base = IF r.refused \/ iptables.rules_applied # <<>>
                                 THEN @ ELSE table,
                        !.want = want,
                        !.issued = r.issued,
                        !.refused = r.refused,
                        !.adds = @ \o r.issued,
                        !.dels = <<>>,
                        !.path = "none"]
    /\ op' = "apply"
    /\ lastCall' = ret
    /\ UNCHANGED <<cfg, euid, services, running, pc, idx, started, snapshot, attempted,
                   phasesDone, rulesInstalled, hadHandle, stopCalled, stopRaised,
                   removal, handed, stub, sess, dir, ftp, dns, http, pool, text, valid, conf, conn, udp>>

\* iptables.remove_rules()
RedirectorRemove ==
    /\ \E env \in RemoveEnvs(iptables, euid) :
         LET r == remove_rules(iptables, table, saveFile, euid, env)
         IN  /\ faults + RemoveCost(env) <= MaxFaults
             /\ faults' = faults + RemoveCost(env)
             /\ table' = r.table
             /\ saveFile' = r.file
             /\ iptables' = r.mgr
             /\ rlog' = [rlog EXCEPT
                    !.removed = IF r.path \in {"restore", "fallback"}
                                THEN OkRules(rlog.adds) ELSE @,
                    !.adds = IF r.path \in {"restore", "fallback"} THEN <<>> ELSE @,
                    !.dels = r.deleted,
                    !.path = r.path]
    /\ op' = "remove"
    /\ ret' = "done"
    /\ lastCall' = ret
    /\ UNCHANGED <<cfg, euid, services, running, pc, idx, started, snapshot, attempted,
                   phasesDone, rulesInstalled, hadHandle, stopCalled, stopRaised,
                   removal, nStarts, handed, stub, sess, dir, ftp, dns, http, pool, text, valid, conf, conn, udp>>

\* the caller's drop_privileges() between two calls
RedirectorDrop ==
    /\ euid = "root"
    /\ euid' = "user"
    /\ op' = "drop"
    /\ UNCHANGED <<cfg, table, saveFile, services, iptables, running, pc, idx, started,
                   snapshot, ret, lastCall, attempted, phasesDone, rulesInstalled,
                   hadHandle, stopCalled, stopRaised, removal, nStarts, faults, handed,
                   rlog, stub, sess, dir, ftp, dns, http, pool, text, valid, conf, conn, udp>>

RedirectorNext == RedirectorApply \/ RedirectorRemove \/ RedirectorDrop

RedirectorSpec == RedirectorInit /\ [][RedirectorNext]_vars

-----------------------------------------------------------------------------
(* One protocol stub driven on its own: start() and stop() in any order.    *)
(* server: the attribute the running property tests is set (_server, _sock, *)
(* _server_udp); sock: the stub holds an open socket; loop: its serve loop  *)
(* is running; stop_event: CatchAllUDPService._stop_event is set.           *)

\* stubs built on socketserver.ThreadingTCPServer
TcpServerStubs == {"http", "https", "smtp", "pop3", "imap", "ftp", "catch_tcp"}

\* of these, the ones whose stop() calls shutdown() without server_close()
StubsWithoutClose == {"smtp", "pop3", "imap", "ftp", "catch_tcp"}

\* <Stub>.__init__
NewStub(kind, en) ==
    [kind |-> kind, enabled |-> en, server |-> FALSE, sock |-> FALSE,
     loop |-> FALSE, stop_event |-> FALSE]

\* <Stub>.running: DNSService tests the UDP server's thread, the others test
\* `self._server is not None` (`self._sock` for CatchAllUDPService)
StubRunning(st) == IF st.kind = "dns" THEN st.loop ELSE st.server

\* What can happen in start().  While the stub's own socket still holds the
\* port a new bind fails, except for the SO_REUSEADDR datagram socket.
StubStartCases(st) ==
    IF ~st.enabled THEN {"disabled"}
    ELSE (IF st.kind \in {"smtp", "ftp"} THEN {"mkdir_raise"} ELSE {})
         \cup (IF st.kind = "dns" THEN {"no_dnslib"} ELSE {})
         \cup (IF st.kind = "https" THEN {"no_cert"} ELSE {})
         \cup {"bind_fail"}
         \cup (IF st.sock /\ st.kind # "catch_udp" THEN {}
               ELSE {"ok"}
                    \cup (IF st.kind = "https" THEN {"tls_fail"} ELSE {})
                    \cup (IF st.kind = "dns" THEN {"tcp_bind_fail"} ELSE {}))

\* The stub after start() with outcome o.  A TCP server's constructor raises
\* before `self._server` is assigned; HTTPSService assigns it and then wraps
\* the socket; DNSService assigns the UDP server before constructing the TCP
\* one; CatchAllUDPService assigns `self._sock` before bind().
StubAfterStart(st, o) ==
    CASE o \in {"disabled", "mkdir_raise", "no_dnslib", "no_cert"} -> st
      [] o = "bind_fail" ->
            IF st.kind = "catch_udp" THEN [st EXCEPT !.server = TRUE, !.sock = TRUE]
            ELSE st
      [] o \in {"tls_fail", "tcp_bind_fail"} -> [st EXCEPT !.server = TRUE, !.sock = TRUE]
      [] o = "ok" ->
            [st EXCEPT !.server = TRUE, !.sock = TRUE,
                       !.loop = IF st.kind = "catch_udp" THEN ~st.stop_event ELSE TRUE]

StubStartReturn(o) ==
    CASE o = "ok" -> "true"
      [] o = "mkdir_raise" -> "raised"
      [] OTHER -> "false"

\* What can happen in stop().  shutdown() waits for serve_forever() to end and
\* never returns when serve_forever() was never started.  After a stop()
\* without server_close() the listening socket stays open until the server
\* object happens to be collected.
StubStopCases(st) ==
    IF st.kind \in TcpServerStubs /\ st.server /\ ~st.loop THEN {"blocks"}
    ELSE IF st.kind \in StubsWithoutClose /\ st.server
         THEN {"socket_kept", "socket_collected"}
         ELSE {"done"}

StubAfterStop(st, o) ==
    LET ev == IF st.kind = "catch_udp" THEN TRUE ELSE st.stop_event
    IN  IF o = "blocks" THEN st
        ELSE IF ~st.server THEN [st EXCEPT !.stop_event = ev]
        ELSE [st EXCEPT !.server = FALSE, !.loop = FALSE, !.stop_event = ev,
                        !.sock = IF o = "socket_kept" THEN st.sock ELSE FALSE]

StubInit ==
    /\ stub \in {NewStub(k, en) : k \in Stubs, en \in BOOLEAN}
    /\ cfg = BaseConfig
    /\ euid = "root"
    /\ table = <<>>
    /\ saveFile = NoFile
    /\ services = <<>>
    /\ iptables = NoManager
    /\ running = FALSE
    /\ pc = "idle"
    /\ op = "none"
    /\ idx = 0
    /\ started = <<>>
    /\ snapshot = <<>>
    /\ ret = "none"
    /\ lastCall = "none"
    /\ attempted = {}
    /\ phasesDone = {}
    /\ rulesInstalled = FALSE
    /\ hadHandle = FALSE
    /\ stopCalled = {}
    /\ stopRaised = FALSE
    /\ removal = "none"
    /\ nStarts = 0
    /\ faults = 0
    /\ handed = NoPorts
    /\ rlog = NoLog
    /\ sess = NoSession
    /\ dir = NoDir
    /\ ftp = NoFtp
    /\ dns = NoDns
    /\ http = NoHttp
    /\ pool = NoPool
    /\ text = NoText
    /\ valid = NoValid
    /\ conf = NoConf
    /\ conn = NoConn
    /\ udp = NoUdp

\* <Stub>.start()
StubStartCall ==
    /\ ret # "blocked"
    /\ nStarts < MaxStarts
    /\ nStarts' = nStarts + 1
    /\ \E o \in StubStartCases(stub) :
         /\ faults' = faults + (IF o \in {"ok", "disabled"} THEN 0 ELSE 1)
         /\ faults' <= MaxFaults
         /\ stub' = StubAfterStart(stub, o)
         /\ ret' = StubStartReturn(o)
    /\ op' = "stub_start"
    /\ lastCall' = ret
    /\ UNCHANGED <<cfg, euid, table, saveFile, services, iptables, running, pc, idx,
                   started, snapshot, attempted, phasesDone, rulesInstalled, hadHandle,
                   stopCalled, stopRaised, removal, handed, rlog, sess, dir, ftp, dns, http, pool, text, valid, conf, conn, udp>>

\* <Stub>.stop()
StubStopCall ==
    /\ ret # "blocked"
    /\ \E o \in StubStopCases(stub) :
         /\ stub' = StubAfterStop(stub, o)
         /\ ret' = IF o = "blocks" THEN "blocked" ELSE "done"
    /\ op' = "stub_stop"
    /\ lastCall' = ret
    /\ UNCHANGED <<cfg, euid, table, saveFile, services, iptables, running, pc, idx,
                   started, snapshot, attempted, phasesDone, rulesInstalled, hadHandle,
                   stopCalled, stopRaised, removal, nStarts, faults, handed, rlog,
                   sess, dir, ftp, dns, http, pool, text, valid, conf, conn, udp>>

StubNext == StubStartCall \/ StubStopCall

StubSpec == StubInit /\ [][StubNext]_vars

-----------------------------------------------------------------------------
(* One client session of the SMTP, POP3, IMAP or FTP stub: the receive loop *)
(* of run()/handle() and, for SMTP, _handle_line and _save_email.  Bytes    *)
(* are counted, not spelled out: `buf` is the length of the unparsed        *)
(* buffer, a line is known by its class and its length.                     *)

SessionProtos == {"smtp", "pop3", "imap", "ftp"}

\* the argument of recv() in each receive loop
RecvSize(proto) ==
    CASE proto = "smtp" -> 4096
      [] proto = "imap" -> 2048
      [] OTHER -> 1024

\* Lines a client sends: the commands _handle_line tells apart, the lone dot,
\* an empty line, and any other text (a body line, MAIL FROM:<...>, a file
\* name, ...)
LineClasses == {"DATA", "DOT", "RSET", "QUIT", "EMPTY", "TEXT"}

LineLen(cls) ==
    CASE cls = "DOT" -> 1
      [] cls = "EMPTY" -> 0
      [] cls = "TEXT" -> 20
      [] OTHER -> 4

\* _SMTPClientThread.__init__ / the handlers' local state
NewSession(proto, save) ==
    [proto |-> proto, open |-> TRUE, save_dir |-> save, buf |-> 0,
     data_mode |-> FALSE, lines |-> 0, current_size |-> 0, recvs |-> 0,
     done |-> 0, expect |-> 0,
     line |-> "none",   \* the class of the line handled last
     late |-> 0,        \* lines handled after the QUIT of this session
     late_saved |-> 0]  \* message files written after the QUIT

\* the sum _save_email computes over the files of save_dir
DirBytes(d) ==
    LET RECURSIVE Sum(_)
        Sum(i) == IF i = 0 THEN 0 ELSE d.files[i].size + Sum(i - 1)
    IN  d.other + Sum(Len(d.files))

NewFileNameFromClient(d, se) == [kind |-> "client", n |-> se.current_size]

\* uuid.uuid4().hex + ".eml": a fresh random name
NewFileName(d, se) == [kind |-> "uuid", n |-> Len(d.files) + 1]

SaveEmailIgnoringCap(se, d, write_ok) ==
    IF ~se.save_dir \/ se.lines = 0 \/ ~write_ok THEN d
    ELSE [d EXCEPT !.files = Append(@, [name |-> NewFileName(d, se),
                                        size |-> se.current_size + se.lines - 1])]

\* _save_email: the directory afterwards; write_ok says whether open()/write()
\* succeeded
save_email(se, d, write_ok) ==
    IF ~se.save_dir \/ se.lines = 0 THEN d
    ELSE IF DirBytes(d) > MAX_DISK_USAGE_BYTES THEN d
    ELSE IF ~write_ok THEN d
    ELSE [d EXCEPT !.files = Append(@, [name |-> NewFileName(d, se),
                                        size |-> se.current_size + se.lines - 1])]

\* a _handle_line whose "." branch leaves mail_data and current_size alone
HandleLineKeepsData(se, cls, n) ==
    IF se.data_mode
    THEN IF cls = "DOT"
         THEN [se EXCEPT !.data_mode = FALSE]
         ELSE [se EXCEPT !.lines = @ + 1, !.current_size = @ + n]
    ELSE CASE cls = "DATA" -> [se EXCEPT !.data_mode = TRUE]
           [] cls = "QUIT" -> [se EXCEPT !.open = FALSE]
           [] OTHER -> se

\* _handle_line on a line of class cls and length n: the session afterwards
handle_line(se, cls, n) ==
    IF se.data_mode
    THEN IF cls = "DOT"
         THEN [se EXCEPT !.data_mode = FALSE, !.lines = 0, !.current_size = 0]
         ELSE IF se.current_size < MAX_EMAIL_SIZE_BYTES
              THEN [se EXCEPT !.lines = @ + 1, !.current_size = @ + n]
              ELSE se
    ELSE CASE cls = "DATA" -> [se EXCEPT !.data_mode = TRUE]
           [] cls = "RSET" -> [se EXCEPT !.lines = 0, !.current_size = 0]
           [] cls = "QUIT" -> [se EXCEPT !.open = FALSE]
           [] OTHER -> se

\* POP3Handler / IMAPHandler / _FTPSession: a command line gets its reply;
\* QUIT (LOGOUT) ends the session
handle_cmd(se, cls) == IF cls = "QUIT" THEN [se EXCEPT !.open = FALSE] ELSE se

SessionInit ==
    /\ sess \in {NewSession(p, sv) : p \in SessionProtos, sv \in BOOLEAN}
    /\ sess.save_dir => sess.proto = "smtp"
    /\ dir \in {[other |-> o, files |-> <<>>] :
                    o \in {0, MAX_DISK_USAGE_BYTES, MAX_DISK_USAGE_BYTES + 1}}
    /\ dir.other > 0 => sess.save_dir
    /\ cfg = BaseConfig
    /\ euid = "root"
    /\ table = <<>>
    /\ saveFile = NoFile
    /\ services = <<>>
    /\ iptables = NoManager
    /\ running = FALSE
    /\ pc = "idle"
    /\ op = "none"
    /\ idx = 0
    /\ started = <<>>
    /\ snapshot = <<>>
    /\ ret = "none"
    /\ lastCall = "none"
    /\ attempted = {}
    /\ phasesDone = {}
    /\ rulesInstalled = FALSE
    /\ hadHandle = FALSE
    /\ stopCalled = {}
    /\ stopRaised = FALSE
    /\ removal = "none"
    /\ nStarts = 0
    /\ faults = 0
    /\ handed = NoPorts
    /\ rlog = NoLog
    /\ stub = NoStub
    /\ ftp = NoFtp
    /\ dns = NoDns
    /\ http = NoHttp
    /\ pool = NoPool
    /\ text = NoText
    /\ valid = NoValid
    /\ conf = NoConf
    /\ conn = NoConn
    /\ udp = NoUdp

SessionUnchanged ==
    UNCHANGED <<cfg, euid, table, saveFile, services, iptables, running, pc, idx,
                started, snapshot, ret, lastCall, attempted, phasesDone,
                rulesInstalled, hadHandle, stopCalled, stopRaised, removal, nStarts,
                handed, rlog, stub, ftp, dns, http, pool, text, valid, conf, conn, udp>>

\* recv() returns the rest of a line and its CR LF: `buf += chunk`, the split,
\* and the handling of the line.  Bytes already in the buffer belong to the
\* line, which then is neither a command nor a lone dot.
SessionRecvLine ==
    /\ sess.open /\ sess.recvs < MaxRecv
    /\ \E c \in LineClasses, write_ok \in BOOLEAN :
         LET cls == IF sess.buf > 0 THEN "TEXT" ELSE c
             n == sess.buf + LineLen(c)
             saving == sess.proto = "smtp" /\ sess.data_mode /\ cls = "DOT"
             after == IF sess.proto = "smtp" THEN handle_line(sess, cls, n)
                      ELSE handle_cmd(sess, cls)
             message == saving /\ sess.lines > 0
             stored == message /\ sess.save_dir /\ write_ok
                       /\ DirBytes(dir) <= MAX_DISK_USAGE_BYTES
         IN  /\ (~write_ok) => (message /\ sess.save_dir)
             /\ faults' = faults + (IF write_ok THEN 0 ELSE 1)
             /\ faults' <= MaxFaults
             /\ dir' = IF saving THEN save_email(sess, dir, write_ok) ELSE dir
             /\ sess' = [after EXCEPT !.buf = 0, !.recvs = @ + 1, !.line = cls,
                                      !.done = @ + (IF message THEN 1 ELSE 0),
                                      !.expect = @ + (IF stored THEN 1 ELSE 0)]
    /\ op' = "line"
    /\ SessionUnchanged

\* the inner `while b"\r\n" in buf` loop of run() on the lines of one chunk,
\* from line i on: each line goes to the handler, whatever the handler did to
\* the connection on the line before.  <<session, directory>> afterwards.
RECURSIVE HandleLines(_, _, _, _)
HandleLines(se, d, classes, i) ==
    IF i > Len(classes) THEN <<se, d>>
    ELSE LET cls == IF i = 1 /\ se.buf > 0 THEN "TEXT" ELSE classes[i]
             n == (IF i = 1 THEN se.buf ELSE 0) + LineLen(classes[i])
             saving == se.proto = "smtp" /\ se.data_mode /\ cls = "DOT"
             after == IF se.proto = "smtp" THEN handle_line(se, cls, n)
                      ELSE handle_cmd(se, cls)
             d1 == IF saving THEN save_email(se, d, TRUE) ELSE d
             message == saving /\ se.lines > 0
             stored == Len(d1.files) > Len(d.files)
         IN  HandleLines([after EXCEPT !.buf = 0, !.line = cls,
                                       !.done = @ + (IF message THEN 1 ELSE 0),
                                       !.expect = @ + (IF stored THEN 1 ELSE 0),
                                       !.late = @ + (IF se.open THEN 0 ELSE 1),
                                       !.late_saved =
                                           @ + (IF ~se.open /\ stored THEN 1 ELSE 0)],
                         d1, classes, i + 1)

\* recv() returns a chunk that holds several complete lines, the first of
\* them a QUIT command: the client has pipelined lines behind its QUIT
SessionRecvLines ==
    /\ sess.open /\ sess.recvs < MaxRecv
    /\ sess.buf = 0 /\ ~sess.data_mode
    /\ \E classes \in UNION {[1..k -> LineClasses] : k \in 2..MaxPipelined} :
         LET r == HandleLines(sess, dir, classes, 1)
         IN  /\ classes[1] = "QUIT"
             /\ sess' = [r[1] EXCEPT !.recvs = @ + 1]
             /\ dir' = r[2]
    /\ op' = "lines"
    /\ UNCHANGED faults
    /\ SessionUnchanged

\* recv() returns separator-free bytes, one full chunk or as many full chunks
\* in a row as make up the per-message cap and one more: each `buf += chunk`
\* finds no CR LF and the loop goes back to recv()
SessionRecvRaw ==
    /\ sess.open /\ sess.recvs < MaxRecv
    /\ \E k \in {1, MAX_EMAIL_SIZE_BYTES \div RecvSize(sess.proto) + 1} :
         sess' = [sess EXCEPT !.buf = @ + k * RecvSize(sess.proto), !.recvs = @ + 1]
    /\ op' = "raw"
    /\ UNCHANGED <<dir, faults>>
    /\ SessionUnchanged

\* recv() returns b"": the loop ends and the connection is closed
SessionRecvEof ==
    /\ sess.open
    /\ sess' = [sess EXCEPT !.open = FALSE]
    /\ op' = "eof"
    /\ UNCHANGED <<dir, faults>>
    /\ SessionUnchanged

SessionNext == SessionRecvLine \/ SessionRecvLines \/ SessionRecvRaw \/ SessionRecvEof

SessionSpec == SessionInit /\ [][SessionNext]_vars

-----------------------------------------------------------------------------
(* The specifications below each drive one more part of the program on its  *)
(* own; the orchestrator, the Redirector, the stub and the mail session     *)
(* stay as constructed.                                                     *)

OrchestratorIdle ==
    /\ euid = "root"
    /\ table = <<>>
    /\ saveFile = NoFile
    /\ services = <<>>
    /\ iptables = NoManager
    /\ running = FALSE
    /\ pc = "idle"
    /\ idx = 0
    /\ started = <<>>
    /\ snapshot = <<>>
    /\ ret = "none"
    /\ lastCall = "none"
    /\ attempted = {}
    /\ phasesDone = {}
    /\ rulesInstalled = FALSE
    /\ hadHandle = FALSE
    /\ stopCalled = {}
    /\ stopRaised = FALSE
    /\ removal = "none"
    /\ nStarts = 0
    /\ faults = 0
    /\ handed = NoPorts
    /\ rlog = NoLog
    /\ stub = NoStub
    /\ sess = NoSession
    /\ dir = NoDir

OthersIdle ==
    /\ cfg = BaseConfig
    /\ OrchestratorIdle
    /\ valid = NoValid
    /\ conf = NoConf
    /\ conn = NoConn
    /\ udp = NoUdp

ProtocolsIdle ==
    /\ ftp = NoFtp
    /\ dns = NoDns
    /\ http = NoHttp
    /\ pool = NoPool
    /\ text = NoText

OthersUnchanged ==
    UNCHANGED <<cfg, euid, table, saveFile, services, iptables, running, pc, idx,
                started, snapshot, ret, lastCall, attempted, phasesDone,
                rulesInstalled, hadHandle, stopCalled, stopRaised, removal, nStarts,
                faults, handed, rlog, stub, sess, dir, valid, conf, conn, udp>>

\* what an action on valid, conf, conn or udp leaves alone besides those four
RestUnchanged ==
    UNCHANGED <<cfg, euid, table, saveFile, services, iptables, running, pc, idx,
                started, snapshot, ret, lastCall, attempted, phasesDone,
                rulesInstalled, hadHandle, stopCalled, stopRaised, removal, nStarts,
                faults, handed, rlog, stub, sess, dir, ftp, dns, http, pool, text>>

-----------------------------------------------------------------------------
(* One FTP control session (_FTPSession): each action is _handle_cmd on one *)
(* command line, with what it does on the passive listener, the data        *)
(* connection and the upload directory.                                     *)
(*   pasv     _pasv_server is set: a passive listener is open               *)
(*   data     the data connection accepted by the last command: "none",     *)
(*            "closed" (close() called), "open" (never closed), "collected" *)
(*            (never closed by the handler, released by the interpreter)    *)
(*   events   what the last command did, in order: [e, code]                *)
(*   other    bytes of the files the upload directory held at the start     *)
(*   files    the files this session created: [name, size]                  *)
(*   before, nbefore   usage of the directory and number of files when the  *)
(*            last command began                                            *)
(*   offered  bytes the client sent on the data connection of the last STOR *)
(*   fault    an I/O call of the last command raised                        *)

FtpCommands == {"PASV", "PORT", "LIST", "STOR", "RETR", "NLST", "QUIT", "NOOP"}

\* the argument of data_conn.recv()
DATA_CHUNK == 65536

NewFtpSession(up, o) ==
    [open |-> TRUE, upload_dir |-> up, pasv |-> FALSE, data |-> "none",
     cmd |-> "none", events |-> <<>>, other |-> o, files |-> <<>>,
     before |-> 0, nbefore |-> 0, offered |-> 0, fault |-> FALSE, ncmds |-> 0,
     read |-> 0,        \* bytes the last STOR read from the data connection
     listeners |-> 0,   \* passive listening sockets of the session that are open
     peak |-> 0,        \* the most that were open at once during the last command
     ended |-> FALSE]   \* run() has returned

Send(code) == [e |-> "send", code |-> code]
Ev(e) == [e |-> e, code |-> 0]

\* _get_disk_usage
get_disk_usage(f) ==
    LET RECURSIVE Sum(_)
        Sum(i) == IF i = 0 THEN 0 ELSE f.files[i].size + Sum(i - 1)
    IN  f.other + Sum(Len(f.files))

\* _accept_data: a is what accept() does, "conn" (a client connected) or
\* "timeout" (it raised).  Without a passive listener nothing is called.
accept_data(f, a) ==
    IF f.pasv
    THEN IF a = "conn"
         THEN [conn |-> TRUE, pasv |-> FALSE, events |-> <<Ev("accept"), Ev("close_listener")>>]
         ELSE [conn |-> FALSE, pasv |-> TRUE, events |-> <<Ev("accept")>>]
    ELSE [conn |-> FALSE, pasv |-> FALSE, events |-> <<>>]

\* the session once _accept_data has returned: a listener that accepted a
\* connection has been closed
Accepted(f, acc) ==
    [f EXCEPT !.pasv = acc.pasv, !.listeners = IF acc.conn THEN @ - 1 ELSE @]

\* Uploads a client sends on the data connection: n chunks of c bytes each,
\* then end of stream
Uploads ==
    {[c |-> DATA_CHUNK, n |-> k] :
        k \in {0, 1, MAX_UPLOAD_SIZE_BYTES \div DATA_CHUNK,
               MAX_UPLOAD_SIZE_BYTES \div DATA_CHUNK + 1}}
    \cup {[c |-> 40000, n |-> MAX_UPLOAD_SIZE_BYTES \div 40000 + 2]}

\* outcomes of the I/O calls of a transfer: all succeed, open() raises, or
\* the recv()/write()/sendall() of chunk number `at` (from 0) raises
Outcomes ==
    {[kind |-> "ok", at |-> 0], [kind |-> "open_fails", at |-> 0]}
    \cup {[kind |-> k, at |-> j] : k \in {"recv_fails", "write_fails"}, j \in {0, 1}}

\* the `while True` loop of _recv_file.  Every pass that goes round again
\* reads one chunk and writes it, so after j passes received = written =
\* j * c; `last` is the first pass that does not go round again: recv() or
\* write() raises there, the stream has ended, or the chunk would take
\* `received` over the cap.  The tests of that pass are in the code's order.
LastPass(up, io) ==
    LET ends == {up.n, MAX_UPLOAD_SIZE_BYTES \div up.c}
                \cup (IF io.kind \in {"recv_fails", "write_fails"} THEN {io.at} ELSE {})
    IN  CHOOSE j \in ends : \A k \in ends : j <= k

ReceiveLoopWriteFirst(up, io) ==
    LET j == LastPass(up, io)
    IN  [received |-> IF j = up.n THEN j * up.c ELSE (j + 1) * up.c,
         written |-> IF j = up.n THEN j * up.c ELSE (j + 1) * up.c,
         raised |-> io.kind \in {"recv_fails", "write_fails"} /\ io.at = j]

ReceiveLoop(up, io) ==
    LET j == LastPass(up, io)
        received == j * up.c
        written == j * up.c
    IN  IF io.kind = "recv_fails" /\ io.at = j
        THEN [received |-> received, written |-> written, raised |-> TRUE]
        ELSE IF j = up.n
        THEN [received |-> received, written |-> written, raised |-> FALSE]
        ELSE IF received + up.c > MAX_UPLOAD_SIZE_BYTES
        THEN [received |-> received + up.c, written |-> written, raised |-> FALSE]
        ELSE [received |-> received + up.c, written |-> written, raised |-> TRUE]

FtpFileName(f) == [kind |-> "uuid", n |-> Len(f.files) + 1]

RecvFileAcceptFirst(f, a, up, io) ==
    LET acc == accept_data(f, a)
    IN  [Accepted(f, acc) EXCEPT
                  !.data = IF acc.conn THEN "closed" ELSE "none",
                  !.events = acc.events \o <<Send(150)>>
                             \o (IF acc.conn THEN <<Ev("close_data"), Send(226)>>
                                 ELSE <<Send(425)>>)]

\* _recv_file
recv_file(f, a, up, io) ==
    LET acc == accept_data(f, a)
        start == <<Send(150)>> \o acc.events
        loop == ReceiveLoop(up, io)
        failed == io.kind = "open_fails" \/ loop.raised
    IN  IF ~acc.conn
        THEN [Accepted(f, acc) EXCEPT !.events = start \o <<Send(425)>>]
        ELSE IF ~f.upload_dir
        THEN [Accepted(f, acc) EXCEPT !.data = "closed", !.fault = io.kind # "ok",
                       !.read = IF io.kind = "ok" THEN f.offered ELSE 0,
                       !.events = start \o <<Ev("drain"), Ev("close_data"), Send(226)>>]
        ELSE IF get_disk_usage(f) > FTP_MAX_DISK_USAGE_BYTES
        THEN [Accepted(f, acc) EXCEPT !.data = "closed", !.fault = io.kind # "ok",
                       !.read = IF io.kind = "ok" THEN f.offered ELSE 0,
                       !.events = start \o <<Ev("drain"), Ev("close_data"), Send(452)>>]
        ELSE [Accepted(f, acc) EXCEPT !.data = "closed", !.fault = failed,
                       !.read = IF io.kind = "open_fails" THEN 0 ELSE loop.received,
                       !.files = IF io.kind = "open_fails" THEN @
                                 ELSE Append(@, [name |-> FtpFileName(f),
                                                 size |-> loop.written]),
                       !.events = start \o <<Ev("open_file"), Ev("recv")>>
                                  \o <<Send(IF failed THEN 451 ELSE 226)>>
                                  \o <<Ev("close_data")>>]

\* the LIST branch of _handle_cmd: when sendall() raises, the exception leaves
\* _handle_cmd and ends run(); gc says whether the interpreter has released
\* the socket object by then
handle_list(f, a, io, gc) ==
    LET acc == accept_data(f, a)
        start == acc.events \o <<Send(150)>>
    IN  IF ~acc.conn
        THEN [Accepted(f, acc) EXCEPT !.events = start \o <<Send(226)>>]
        ELSE IF io.kind = "write_fails"
        THEN [Accepted(f, acc) EXCEPT !.fault = TRUE, !.open = FALSE,
                       !.data = IF gc THEN "collected" ELSE "open",
                       !.events = start \o <<Ev("sendall"), Ev("close_control")>>]
        ELSE [Accepted(f, acc) EXCEPT !.data = "closed",
                       !.events = start \o <<Ev("sendall"), Ev("close_data"), Send(226)>>]

\* the RETR / NLST branch of _handle_cmd
handle_retr(f, a) ==
    LET acc == accept_data(f, a)
    IN  [Accepted(f, acc) EXCEPT
                  !.data = IF acc.conn THEN "closed" ELSE "none",
                  !.events = acc.events \o <<Send(150)>>
                             \o (IF acc.conn THEN <<Ev("close_data")>> ELSE <<>>)
                             \o <<Send(226)>>]

\* the PASV branch and _open_pasv: bound says whether a port of the passive
\* range could be bound.  The new listener is bound and listening before
\* self._pasv_server is overwritten; a listener the session had is never
\* closed by the code, and gc says whether the interpreter has released it
\* once the attribute no longer names it.
handle_pasv(f, bound, gc) ==
    IF bound
    THEN [f EXCEPT !.pasv = TRUE,
                   !.peak = f.listeners + 1,
                   !.listeners = IF f.pasv /\ gc THEN @ ELSE @ + 1,
                   !.events = <<Ev("listen"), Send(227)>>]
    ELSE [f EXCEPT !.events = <<Send(425)>>]

HandlePortActive(f) ==
    [f EXCEPT !.data = "closed",
              !.events = <<Ev("connect"), Send(200), Ev("close_data")>>]

\* the PORT branch
handle_port(f) == [f EXCEPT !.events = <<Send(500)>>]

\* _handle_cmd
handle_ftp_cmd(f, cmd, a, up, io, bound, gc) ==
    LET g == [f EXCEPT !.cmd = cmd, !.data = "none", !.events = <<>>,
                       !.fault = FALSE, !.ncmds = @ + 1, !.read = 0,
                       !.peak = f.listeners,
                       !.offered = IF cmd = "STOR" THEN up.c * up.n ELSE 0,
                       !.before = get_disk_usage(f), !.nbefore = Len(f.files)]
    IN  CASE cmd = "PASV" -> handle_pasv(g, bound, gc)
          [] cmd = "PORT" -> handle_port(g)
          [] cmd = "LIST" -> handle_list(g, a, io, gc)
          [] cmd = "STOR" -> recv_file(g, a, up, io)
          [] cmd \in {"RETR", "NLST"} -> handle_retr(g, a)
          [] cmd = "QUIT" -> [g EXCEPT !.open = FALSE,
                                       !.events = <<Send(221), Ev("close_control")>>]
          [] OTHER -> [g EXCEPT !.events = <<Send(200)>>]

FtpInit ==
    /\ ftp \in {NewFtpSession(up, o) :
                   up \in BOOLEAN,
                   o \in {0, FTP_MAX_DISK_USAGE_BYTES - DATA_CHUNK,
                          FTP_MAX_DISK_USAGE_BYTES + 1}}
    /\ ftp.other > 0 => ftp.upload_dir
    /\ op = "none"
    /\ dns = NoDns
    /\ http = NoHttp
    /\ pool = NoPool
    /\ text = NoText
    /\ OthersIdle

FtpUnchanged ==
    /\ UNCHANGED <<dns, http, pool, text, valid, conf, conn, udp>>
    /\ OthersUnchanged

\* commands without a data transfer
FtpControlCommand ==
    /\ ftp.open /\ ftp.ncmds < MaxCmds
    /\ \E cmd \in {"PORT", "QUIT", "NOOP"} :
         /\ ftp' = handle_ftp_cmd(ftp, cmd, "timeout", [c |-> DATA_CHUNK, n |-> 0],
                                  [kind |-> "ok", at |-> 0], TRUE, FALSE)
         /\ op' = cmd
    /\ FtpUnchanged

FtpPasv ==
    /\ ftp.open /\ ftp.ncmds < MaxCmds
    /\ \E bound \in BOOLEAN, gc \in BOOLEAN :
         ftp' = handle_ftp_cmd(ftp, "PASV", "timeout", [c |-> DATA_CHUNK, n |-> 0],
                               [kind |-> "ok", at |-> 0], bound, gc)
    /\ op' = "PASV"
    /\ FtpUnchanged

\* LIST, RETR, NLST
FtpDownload ==
    /\ ftp.open /\ ftp.ncmds < MaxCmds
    /\ \E cmd \in {"LIST", "RETR", "NLST"}, a \in {"conn", "timeout"},
          k \in {"ok", "write_fails"}, gc \in BOOLEAN :
         /\ (k # "ok" \/ gc) => (cmd = "LIST" /\ a = "conn" /\ ftp.pasv)
         /\ gc => k # "ok"
         /\ ftp' = handle_ftp_cmd(ftp, cmd, a, [c |-> DATA_CHUNK, n |-> 0],
                                  [kind |-> k, at |-> 0], TRUE, gc)
         /\ op' = cmd
    /\ FtpUnchanged

FtpStor ==
    /\ ftp.open /\ ftp.ncmds < MaxCmds
    /\ \E a \in {"conn", "timeout"}, up \in Uploads, io \in Outcomes :
         /\ (a # "conn" \/ ~ftp.pasv) =>
                (io.kind = "ok" /\ up.n = 0)
         /\ ftp' = handle_ftp_cmd(ftp, "STOR", a, up, io, TRUE, FALSE)
    /\ op' = "STOR"
    /\ FtpUnchanged

\* run() returns: recv() returned b"" (the client has disconnected) or raised
\* (timeout, or the control connection is closed), and the finally clause
\* closes the control connection.  Nothing closes the passive listener; gc
\* says whether the interpreter has released the session object by then.
FtpRunEnds ==
    /\ ~ftp.ended
    /\ \E gc \in BOOLEAN :
         ftp' = [ftp EXCEPT !.open = FALSE, !.ended = TRUE,
                            !.cmd = "none", !.data = "none", !.events = <<>>,
                            !.listeners = IF gc THEN 0 ELSE @]
    /\ op' = "end"
    /\ FtpUnchanged

FtpNext == FtpControlCommand \/ FtpPasv \/ FtpDownload \/ FtpStor \/ FtpRunEnds

FtpSpec == FtpInit /\ [][FtpNext]_vars

-----------------------------------------------------------------------------
(* The DNS resolver (_FakeResolver): a resolver is built from a             *)
(* configuration and answers a query; resolve() keeps nothing from one      *)
(* query to the next, so a behaviour holds one.  A name is a sequence of    *)
(* characters, so that lower() and rstrip(".") do what they do.             *)
(*   records  the custom_records of the configuration, in insertion order   *)
(*   answers  the answer section of the reply to the last query             *)

NameChars == {"a", "A", "b", "."}

QueryTypes == {"A", "AAAA", "PTR", "MX", "TXT"}

\* DNSService.redirect_ip and the fixed PTR target
RedirectIp == "10.0.0.1"
PtrTarget == "notthenet.local"

QueryNames == UNION {[1..n -> NameChars] : n \in 0..NameLen}

\* str.lower()
Lower(name) ==
    [i \in 1..Len(name) |->
        CASE name[i] = "A" -> "a" [] name[i] = "B" -> "b" [] OTHER -> name[i]]

\* str.rstrip(".")
RECURSIVE RStripDots(_)
RStripDots(name) ==
    IF name # <<>> /\ name[Len(name)] = "."
    THEN RStripDots(SubSeq(name, 1, Len(name) - 1))
    ELSE name

\* _FakeResolver.__init__: the dict comprehension over custom_records; a later
\* entry replaces an earlier one with the same key
RECURSIVE BuildRecords(_)
BuildRecords(records) ==
    IF records = <<>> THEN <<>>
    ELSE LET last == records[Len(records)]
             key == RStripDots(Lower(last.name))
             rest == BuildRecords(SubSeq(records, 1, Len(records) - 1))
         IN  SelectSeq(rest, LAMBDA r : r.name # key)
             \o <<[name |-> key, ip |-> last.ip]>>

QNameAsSent(name) == name

\* str(request.q.qname).lower().rstrip(".")
QName(name) == RStripDots(Lower(name))

\* _FakeResolver.resolve: the answer section of the reply
resolve(records, handle_ptr, name, qtype) ==
    LET qname == QName(name)
        custom_records == BuildRecords(records)
        hits == SelectSeq(custom_records, LAMBDA r : r.name = qname)
    IN  IF hits # <<>>
        THEN <<[name |-> qname, type |-> "A", rdata |-> hits[1].ip]>>
        ELSE IF qtype = "PTR"
        THEN IF handle_ptr
             THEN <<[name |-> qname, type |-> "PTR", rdata |-> PtrTarget]>>
             ELSE <<>>
        ELSE <<[name |-> qname, type |-> "A", rdata |-> RedirectIp]>>

\* custom_records of the configurations tried
DnsRecordSets ==
    { <<>>,
      <<[name |-> <<"a", ".", "b">>, ip |-> "10.9.9.1"]>>,
      <<[name |-> <<"A", ".">>, ip |-> "10.9.9.1"],
        [name |-> <<"b">>, ip |-> "10.9.9.2"]>>,
      <<[name |-> <<"a">>, ip |-> "10.9.9.1"],
        [name |-> <<"A", ".">>, ip |-> "10.9.9.2"]>> }

DnsInit ==
    /\ dns \in {[NoDns EXCEPT !.records = r, !.handle_ptr = h] :
                    r \in DnsRecordSets, h \in BOOLEAN}
    /\ op = "none"
    /\ ftp = NoFtp
    /\ http = NoHttp
    /\ pool = NoPool
    /\ text = NoText
    /\ OthersIdle

\* one query handled by resolve()
DnsResolve ==
    /\ ~dns.asked
    /\ \E name \in QueryNames, qtype \in QueryTypes :
         dns' = [dns EXCEPT !.asked = TRUE, !.qname = name, !.qtype = qtype,
                            !.answers = resolve(dns.records, dns.handle_ptr, name, qtype)]
    /\ op' = "resolve"
    /\ UNCHANGED <<ftp, http, pool, text, valid, conf, conn, udp>>
    /\ OthersUnchanged

DnsNext == DnsResolve

DnsSpec == DnsInit /\ [][DnsNext]_vars

-----------------------------------------------------------------------------
(* The HTTP responder (FakeHTTPHandler on http.server's                     *)
(* BaseHTTPRequestHandler): a handler class is made from a configuration    *)
(* and answers one request.  A body is a sequence of characters and a       *)
(* response body a sequence of bytes; a Host header is a sequence of        *)
(* tokens.                                                                  *)

\* the methods FakeHTTPHandler defines do_<METHOD> for
HandledMethods ==
    {"GET", "POST", "PUT", "DELETE", "HEAD", "OPTIONS", "PATCH", "CONNECT", "TRACE"}

\* request methods tried: the handled ones, a WebDAV method, a lower-case one
RequestMethods == HandledMethods \cup {"PROPFIND", "get"}

RequestPaths == {"/", "/ip?format=json"}

RequestHosts ==
    { <<"c2.example">>, <<"ifconfig.me">>, <<"IFCONFIG.ME", ":", "80">>,
      <<"httpbin.org">> }

\* members of _IP_CHECK_HOSTS among the hosts tried
IP_CHECK_HOSTS == {"ifconfig.me", "httpbin.org", "api.ipify.org"}

\* BaseHTTPRequestHandler.version_string(), the Server header send_response()
\* always adds
ServerVersion == "BaseHTTP/0.6 Python/3"

\* first bytes of the error page send_error() writes ("<!DOCTYPE ...") and of
\* the body the public-IP spoof writes
ErrorPage == <<60, 33>>
SpoofedIpBody == <<50, 48, 51>>

ConfiguredBodies == { <<>>, <<"o", "k">>, <<"o", "é">> }

\* str.encode("utf-8", errors="replace")
RECURSIVE Utf8(_)
Utf8(str) ==
    IF str = <<>> THEN <<>>
    ELSE (CASE Head(str) = "o" -> <<111>>
            [] Head(str) = "k" -> <<107>>
            [] Head(str) = "é" -> <<195, 169>>
            [] OTHER -> <<63>>) \o Utf8(Tail(str))

\* self.headers.get("Host", "").split(":")[0].strip().lower()
HostName(host) ==
    LET first == IF host = <<>> THEN "" ELSE host[1]
    IN  CASE first = "IFCONFIG.ME" -> "ifconfig.me"
          [] first = ":" -> ""
          [] OTHER -> first

Header(name, value) == [name |-> name, value |-> value]

\* send_response(code): status line, then the Server and Date headers
send_response(code) ==
    [status |-> code,
     headers |-> <<Header("Server", ServerVersion), Header("Date", "now")>>,
     body |-> <<>>]

\* send_error(501) of BaseHTTPRequestHandler for a method without do_<METHOD>
send_error(code) ==
    LET r == send_response(code)
    IN  [r EXCEPT !.headers = @ \o <<Header("Connection", "close"),
                                     Header("Content-Type", "text/html;charset=utf-8")>>,
                  !.body = ErrorPage]

\* _send_ip_check_response
send_ip_check_response(h, host) ==
    LET r == send_response(200)
        json == host = "httpbin.org" \/ h.path = "/ip?format=json"
    IN  [r EXCEPT !.headers = @ \o <<Header("Content-Type",
                                            IF json THEN "application/json" ELSE "text/plain"),
                                     Header("Server", h.server_header),
                                     Header("Connection", "close")>>,
                  !.body = SpoofedIpBody]

\* _send_fake_response
send_fake_response(h) ==
    IF h.spoof_ip # "" /\ HostName(h.host) \in IP_CHECK_HOSTS
    THEN send_ip_check_response(h, HostName(h.host))
    ELSE LET r == send_response(h.code)
         IN  [r EXCEPT !.headers = @ \o <<Header("Content-Type", "text/html; charset=utf-8"),
                                          Header("Server", h.server_header),
                                          Header("Connection", "close")>>,
                       !.body = Utf8(h.body)]

\* handle_one_request: BaseHTTPRequestHandler looks up do_<command> and
\* answers 501 when the handler class has none
handle_one_request(h) ==
    IF h.method \in HandledMethods THEN send_fake_response(h) ELSE send_error(501)

HttpInit ==
    /\ http \in {[NoHttp EXCEPT !.code = c, !.body = b, !.server_header = sh,
                                !.spoof_ip = ip] :
                    c \in {200, 404}, b \in ConfiguredBodies,
                    sh \in {"nginx", "Apache"}, ip \in {"", "203.0.113.7"}}
    /\ op = "none"
    /\ ftp = NoFtp
    /\ dns = NoDns
    /\ pool = NoPool
    /\ text = NoText
    /\ OthersIdle

\* one request handled
HttpRequest ==
    /\ ~http.asked
    /\ \E m \in RequestMethods, host \in RequestHosts, path \in RequestPaths :
         LET h == [http EXCEPT !.asked = TRUE, !.method = m, !.host = host, !.path = path]
         IN  http' = [h EXCEPT !.response = handle_one_request(h)]
    /\ op' = "request"
    /\ UNCHANGED <<ftp, dns, pool, text, valid, conf, conn, udp>>
    /\ OthersUnchanged

HttpNext == HttpRequest

HttpSpec == HttpInit /\ [][HttpNext]_vars

-----------------------------------------------------------------------------
(* The request handlers of one threaded server: the HTTP/HTTPS server       *)
(* (_ThreadedServer, which hands requests to a ThreadPoolExecutor) or the   *)
(* TCP catch-all server (_ReuseServer, a plain ThreadingTCPServer).         *)
(*   queue    requests submitted to the executor that no worker has taken   *)
(*   threads  worker threads the executor has created                       *)
(*   active   request handlers executing                                    *)

PooledServers == {"http", "https"}

ProcessRequestThreaded(p) == [p EXCEPT !.active = @ + 1]

\* _ThreadedServer.process_request: self._pool.submit(...); the executor
\* starts another worker when none is idle and fewer than max_workers exist
process_request(p) ==
    [p EXCEPT !.queue = @ + 1,
              !.threads = IF p.threads - p.active > p.queue THEN @
                          ELSE IF @ < MAX_WORKER_THREADS THEN @ + 1 ELSE @]

\* ThreadingMixIn.process_request as _ReuseServer inherits it: one new thread
\* per accepted connection, started at once
process_request_thread(p) == [p EXCEPT !.active = @ + 1]

PoolInit ==
    /\ pool \in {[NoPool EXCEPT !.kind = k] : k \in PooledServers \cup {"catch_tcp"}}
    /\ op = "none"
    /\ ftp = NoFtp
    /\ dns = NoDns
    /\ http = NoHttp
    /\ text = NoText
    /\ OthersIdle

PoolUnchanged ==
    /\ UNCHANGED <<ftp, dns, http, text>>
    /\ OthersUnchanged

\* the accept loop takes one more connection and calls process_request
PoolAccept ==
    /\ pool.queue + pool.active < MaxClients
    /\ pool' = IF pool.kind \in PooledServers THEN process_request(pool)
               ELSE process_request_thread(pool)
    /\ op' = "accept"
    /\ PoolUnchanged

\* an idle worker of the executor takes a request and runs its handler
PoolTake ==
    /\ pool.queue > 0 /\ pool.active < pool.threads
    /\ pool' = [pool EXCEPT !.queue = @ - 1, !.active = @ + 1]
    /\ op' = "take"
    /\ PoolUnchanged

\* a handler returns
PoolFinish ==
    /\ pool.active > 0
    /\ pool' = [pool EXCEPT !.active = @ - 1]
    /\ op' = "finish"
    /\ PoolUnchanged

PoolNext == PoolAccept \/ PoolTake \/ PoolFinish

PoolSpec == PoolInit /\ [][PoolNext]_vars

-----------------------------------------------------------------------------
(* sanitize_log_string, called on its own and by the SMTP and FTP sessions  *)
(* on the configured banner before the greeting is sent.  A string is a     *)
(* sequence of characters; "ESC", "CR", "LF", "NUL" stand for the control   *)
(* characters 0x1b, 0x0d, 0x0a, 0x00, "a" for a letter, "0" for a digit.    *)

TextChars == {"a", "0", "[", "ESC", "CR", "LF", "NUL"}

\* characters _UNSAFE_LOG_PATTERN matches
UnsafeChars == {"CR", "LF", "NUL", "ESC"}

\* [0-9;] and [a-zA-Z] of _ANSI_ESCAPE_PATTERN
AnsiParamChars == {"0"}
AnsiFinalChars == {"a", "t", "r", "u", "n", "c", "e", "d"}

Placeholder == <<"[", "?", "]">>

Truncated == <<".", ".", ".", "[", "t", "r", "u", "n", "c", "a", "t", "e", "d", "]">>

\* the max_length the SMTP and FTP sessions pass for the banner
BANNER_MAX_LENGTH == 200

\* number of characters of [0-9;] from position i on
RECURSIVE ParamRun(_, _)
ParamRun(v, i) ==
    IF i <= Len(v) /\ v[i] \in AnsiParamChars THEN 1 + ParamRun(v, i + 1) ELSE 0

\* length of the match of _ANSI_ESCAPE_PATTERN at the start of v, 0 if none
AnsiMatch(v) ==
    IF Len(v) >= 3 /\ v[1] = "ESC" /\ v[2] = "["
    THEN LET k == ParamRun(v, 3)
         IN  IF 3 + k <= Len(v) /\ v[3 + k] \in AnsiFinalChars THEN 3 + k ELSE 0
    ELSE 0

\* _ANSI_ESCAPE_PATTERN.sub("", value).  A match begins with ESC and holds no
\* other ESC, so matches never overlap and every match is replaced: what is
\* left are the characters outside all matches, in order.
StripAnsi(v) ==
    LET starts == {i \in 1..Len(v) : AnsiMatch(SubSeq(v, i, Len(v))) > 0}
        gone == UNION {i..(i + AnsiMatch(SubSeq(v, i, Len(v))) - 1) : i \in starts}
        kept == (1..Len(v)) \ gone
    IN  [j \in 1..Cardinality(kept) |->
            v[CHOOSE i \in kept : Cardinality({k \in kept : k <= i}) = j]]

\* _UNSAFE_LOG_PATTERN.sub("[?]", value): every character on its own, so the
\* result of a string is the results of its halves put together
RECURSIVE ReplaceUnsafe(_)
ReplaceUnsafe(v) ==
    IF v = <<>> THEN <<>>
    ELSE IF Len(v) = 1
    THEN (IF v[1] \in UnsafeChars THEN Placeholder ELSE v)
    ELSE ReplaceUnsafe(SubSeq(v, 1, Len(v) \div 2))
         \o ReplaceUnsafe(SubSeq(v, Len(v) \div 2 + 1, Len(v)))

\* sanitize_log_string for a str argument and max_length >= 0
sanitize_log_string(value, max_length) ==
    LET clean == ReplaceUnsafe(StripAnsi(value))
    IN  IF Len(clean) > max_length
        THEN SubSeq(clean, 1, max_length) \o Truncated
        ELSE clean

\* the byte str.encode("utf-8") gives for a character of the model
Ascii(c) ==
    CASE c = "NUL" -> 0 [] c = "LF" -> 10 [] c = "CR" -> 13 [] c = "ESC" -> 27
      [] c = "." -> 46 [] c = "0" -> 48 [] c = "?" -> 63 [] c = "[" -> 91
      [] c = "]" -> 93 [] c = "a" -> 97 [] c = "c" -> 99 [] c = "d" -> 100
      [] c = "e" -> 101 [] c = "n" -> 110 [] c = "r" -> 114 [] c = "t" -> 116
      [] c = "u" -> 117

Bytes(str) == [i \in 1..Len(str) |-> Ascii(str[i])]

\* _send(msg): sendall((msg + "\r\n").encode("utf-8", errors="replace"))
SendLine(msg) == Bytes(msg \o <<"CR", "LF">>)

\* a string longer than BANNER_MAX_LENGTH
LongText == [i \in 1..(BANNER_MAX_LENGTH + 1) |-> "a"]

Texts == UNION {[1..n -> TextChars] : n \in 0..TextLen} \cup {LongText}

MaxLengths == {0, 1, 2, 3, BANNER_MAX_LENGTH}

TextInit ==
    /\ text = NoText
    /\ op = "none"
    /\ ftp = NoFtp
    /\ dns = NoDns
    /\ http = NoHttp
    /\ pool = NoPool
    /\ OthersIdle

TextUnchanged ==
    /\ UNCHANGED <<ftp, dns, http, pool>>
    /\ OthersUnchanged

\* one call of sanitize_log_string
TextSanitize ==
    /\ ~text.called
    /\ \E v \in Texts, n \in MaxLengths :
         text' = [called |-> TRUE, kind |-> "sanitize", input |-> v, max_length |-> n,
                  output |-> sanitize_log_string(v, n), sent |-> <<>>]
    /\ op' = "sanitize"
    /\ TextUnchanged

\* the first statements of _SMTPClientThread.run / _FTPSession.run: the
\* configured banner goes through sanitize_log_string and is sent
TextGreeting ==
    /\ ~text.called
    /\ \E banner \in Texts, proto \in {"smtp", "ftp"} :
         LET out == sanitize_log_string(banner, BANNER_MAX_LENGTH)
         IN  /\ text' = [called |-> TRUE, kind |-> "banner", input |-> banner,
                         max_length |-> BANNER_MAX_LENGTH, output |-> out,
                         sent |-> SendLine(out)]
             /\ op' = proto
    /\ TextUnchanged

TextNext == TextSanitize \/ TextGreeting

TextSpec == TextInit /\ [][TextNext]_vars

-----------------------------------------------------------------------------
(* ServiceManager.validate(): validate_config applied to one configuration. *)

\* the sections whose "enabled" key and port the configurations below vary
VariedSections == {"http", "smtp", "dns"}

PortChoices(s) == {0, DefaultPort(s), MAX_PORT + 1}

\* Configurations that violate none, one or several checks at once, and
\* catch-all sections with and without a usable port.
ValidateConfigs ==
    { [MkConfig(b, DefaultPort("http"),
                [s \in DOMAIN EnabledAll |->
                    IF s \in VariedSections THEN en[s] ELSE "true"],
                TRUE, catch[1], udp_[1])
         EXCEPT !.redirect_ip = r,
                !.port = [s \in DOMAIN EnabledAll |->
                             IF s \in VariedSections THEN pt[s] ELSE DefaultPort(s)],
                !.tcp_port = catch[2],
                !.udp_port = udp_[2]] :
        b \in {"0.0.0.0", "bad"}, r \in {"127.0.0.1", "bad"},
        en \in [VariedSections -> {"true", "false", "missing"}],
        pt \in {f \in [VariedSections -> {0, 21, 25, 53, 80, MAX_PORT + 1}] :
                    \A s \in VariedSections : f[s] \in PortChoices(s)},
        catch \in BOOLEAN \X {0, DefaultCatchTcpPort},
        udp_ \in {<<FALSE, DefaultCatchUdpPort>>, <<TRUE, MAX_PORT + 1>>} }

ValidateInit ==
    /\ valid = NoValid
    /\ op = "none"
    /\ cfg \in ValidateConfigs
    /\ conf = NoConf
    /\ conn = NoConn
    /\ udp = NoUdp
    /\ ProtocolsIdle
    /\ OrchestratorIdle

\* ServiceManager.validate: errors = validate_config(self.config.as_dict())
Validate ==
    /\ ~valid.called
    /\ valid' = [called |-> TRUE, errors |-> validate_config(cfg)]
    /\ op' = "validate"
    /\ UNCHANGED <<conf, conn, udp>>
    /\ RestUnchanged

ValidateNext == Validate

ValidateSpec == ValidateInit /\ [][ValidateNext]_vars

-----------------------------------------------------------------------------
(* One Config object (config.py) and its client.  A section is a dict       *)
(* object on a heap, so that two names for one object can be told from two  *)
(* equal objects; a section holds at most the one key "key".                *)

Sections == {"section", "general"}

\* a section dict: {"key": "value"} or {"key": "mutated"}; "empty" is the {}
\* that set() creates for a section _data does not have, before it writes
SectionValues == {"value", "mutated"}

\* the value _data has for the client: each section's content, or "absent"
Content(data, heap) ==
    [s \in Sections |-> IF data[s] = 0 THEN "absent" ELSE heap[data[s]]]

\* copy.deepcopy of a top-level dict: <<the copy, the heap with its new objects>>
RECURSIVE DeepCopyFrom(_, _, _)
DeepCopyFrom(content, todo, heap) ==
    IF todo = {} THEN <<[s \in Sections |-> 0], heap>>
    ELSE LET s == CHOOSE x \in todo : TRUE
             rest == DeepCopyFrom(content, todo \ {s}, heap)
         IN  IF content[s] = "absent" THEN rest
             ELSE <<[rest[1] EXCEPT ![s] = Len(rest[2]) + 1],
                    Append(rest[2], content[s])>>

deepcopy(data, heap) == DeepCopyFrom(Content(data, heap), Sections, heap)

\* Config.__init__: load() then self._defaults = copy.deepcopy(self._data).
\* _defaults is reachable from no other name, so it is kept by content.
NewConfig(loaded) ==
    LET d == DeepCopyFrom(loaded, Sections, <<>>)
    IN  [built |-> TRUE, data |-> d[1], heap |-> d[2], defaults |-> loaded,
         loaded |-> loaded, dicts |-> <<>>, changed |-> FALSE]

\* Config.set
set(c, section, v) ==
    LET made == c.data[section] = 0
        heap1 == IF made THEN Append(c.heap, "empty") ELSE c.heap
        id == IF made THEN Len(heap1) ELSE c.data[section]
    IN  [c EXCEPT !.data[section] = id, !.heap = [heap1 EXCEPT ![id] = v]]

\* Config.set_section: self._data[section] = data, the caller's object
set_section(c, section, id) == [c EXCEPT !.data[section] = id]

\* Config.reset_to_defaults
reset_to_defaults(c) ==
    LET d == DeepCopyFrom(c.defaults, Sections, c.heap)
    IN  [c EXCEPT !.data = d[1], !.heap = d[2]]

\* Config.as_dict: <<the returned dictionary, the heap>>
as_dict(c) == deepcopy(c.data, c.heap)

LoadedData == [Sections -> {"absent", "value"}]

\* the section objects the client holds through dictionaries as_dict() returned
Held(c) == {c.dicts[i][s] : i \in 1..Len(c.dicts), s \in Sections} \ {0}

ConfInit ==
    /\ conf \in {NewConfig(l) : l \in LoadedData}
    /\ op = "none"
    /\ cfg = BaseConfig
    /\ valid = NoValid
    /\ conn = NoConn
    /\ udp = NoUdp
    /\ ProtocolsIdle
    /\ OrchestratorIdle

ConfUnchanged ==
    /\ UNCHANGED <<valid, conn, udp>>
    /\ RestUnchanged

\* whether the step from b to c changed the configuration as the client reads it
Changed(b, c) ==
    [c EXCEPT !.changed = Content(b.data, b.heap) # Content(c.data, c.heap)]

\* The objects no name reaches are freed (reference counting); the live ones
\* are numbered in the order they were made.
Live(c) == ({c.data[s] : s \in Sections} \cup Held(c)) \ {0}

Collect(c) ==
    LET rank(id) == IF id = 0 THEN 0 ELSE Cardinality({j \in Live(c) : j <= id})
        old(k) == CHOOSE id \in Live(c) : rank(id) = k
    IN  [c EXCEPT !.data = [s \in Sections |-> rank(c.data[s])],
                  !.dicts = [i \in 1..Len(c.dicts) |->
                                [s \in Sections |-> rank(c.dicts[i][s])]],
                  !.heap = [k \in 1..Cardinality(Live(c)) |-> c.heap[old(k)]]]

ConfSet ==
    /\ \E s \in Sections, v \in SectionValues :
         conf' = Changed(conf, Collect(set(conf, s, v)))
    /\ op' = "set"
    /\ ConfUnchanged

\* set_section with a dictionary the client has just built, or with a
\* section of a dictionary as_dict() returned
ConfSetSection ==
    /\ \E s \in Sections :
         \/ \E v \in SectionValues :
              conf' = Changed(conf,
                          Collect(set_section([conf EXCEPT !.heap = Append(@, v)],
                                              s, Len(conf.heap) + 1)))
         \/ \E id \in Held(conf) :
              conf' = Changed(conf, Collect(set_section(conf, s, id)))
    /\ op' = "set_section"
    /\ ConfUnchanged

ConfAsDict ==
    /\ Len(conf.dicts) < MaxDicts
    /\ LET d == as_dict(conf)
       IN  conf' = Changed(conf, [conf EXCEPT !.dicts = Append(@, d[1]), !.heap = d[2]])
    /\ op' = "as_dict"
    /\ ConfUnchanged

\* the client writes d[section]["key"] in a dictionary d that as_dict() returned
ConfMutateCopy ==
    /\ \E id \in Held(conf), v \in SectionValues :
         conf' = Changed(conf, [conf EXCEPT !.heap[id] = v])
    /\ op' = "mutate"
    /\ ConfUnchanged

ConfReset ==
    /\ conf' = Changed(conf, Collect(reset_to_defaults(conf)))
    /\ op' = "reset"
    /\ ConfUnchanged

ConfNext == ConfSet \/ ConfSetSection \/ ConfAsDict \/ ConfMutateCopy \/ ConfReset

ConfSpec == ConfInit /\ [][ConfNext]_vars

-----------------------------------------------------------------------------
(* One connection accepted by _SMTPServer (mail_server.py).  The server is  *)
(* a socketserver.ThreadingTCPServer: for each accepted connection a server *)
(* thread runs process_request_thread, which calls finish_request and then, *)
(* in its finally clause, shutdown_request: request.shutdown(SHUT_WR) and   *)
(* request.close().  finish_request starts the _SMTPClientThread on the     *)
(* same socket object and returns.                                          *)

NewConn ==
    [accepted |-> TRUE,
     server |-> "finish_request",   \* where the server thread is
     session |-> "unstarted",       \* where the session thread is
     sock |-> "open",               \* "open", "shut_wr" or "closed"
     by |-> "none",                 \* the thread that first shut or closed it
     recvs |-> 0, replies |-> 0, dropped |-> 0]

\* _SMTPClientThread._send: sendall, every exception swallowed
ConnSend(c) ==
    IF c.sock = "open" THEN [c EXCEPT !.replies = @ + 1]
    ELSE [c EXCEPT !.dropped = @ + 1]

\* socket.close() by thread t
ConnClosed(c, t) ==
    [c EXCEPT !.sock = "closed", !.by = IF c.by = "none" THEN t ELSE @]

ConnInit ==
    /\ conn = NewConn
    /\ op = "none"
    /\ cfg = BaseConfig
    /\ valid = NoValid
    /\ conf = NoConf
    /\ udp = NoUdp
    /\ ProtocolsIdle
    /\ OrchestratorIdle

ConnUnchanged ==
    /\ UNCHANGED <<valid, conf, udp>>
    /\ RestUnchanged

\* server thread: _SMTPServer.finish_request creates the thread and starts it
ConnFinishRequest ==
    /\ conn.server = "finish_request"
    /\ conn' = [conn EXCEPT !.server = "shutdown_request", !.session = "run"]
    /\ op' = "finish_request"
    /\ ConnUnchanged

\* server thread: shutdown_request, request.shutdown(SHUT_WR), OSError ignored
ConnShutdownRequest ==
    /\ conn.server = "shutdown_request"
    /\ conn' = [conn EXCEPT !.server = "close_request",
                            !.sock = IF @ = "open" THEN "shut_wr" ELSE @,
                            !.by = IF conn.sock = "open" THEN "server" ELSE @]
    /\ op' = "shutdown_request"
    /\ ConnUnchanged

\* server thread: close_request, request.close()
ConnCloseRequest ==
    /\ conn.server = "close_request"
    /\ conn' = [ConnClosed(conn, "server") EXCEPT !.server = "returned"]
    /\ op' = "close_request"
    /\ ConnUnchanged

\* session thread: run() sends the banner
ConnGreeting ==
    /\ conn.session = "run"
    /\ conn' = [ConnSend(conn) EXCEPT !.session = "recv"]
    /\ op' = "greeting"
    /\ ConnUnchanged

\* session thread: one recv() and what run() does with it.  recv on a socket
\* this process has closed raises; otherwise the client sends a command line
\* or QUIT, or disconnects, or the 30 s timeout expires.
ConnRecv ==
    /\ conn.session = "recv"
    /\ \/ /\ conn.sock = "closed"
          /\ conn' = [conn EXCEPT !.session = "ended"]
          /\ op' = "error"
       \/ /\ conn.sock # "closed"
          /\ conn.recvs < MaxRecv
          /\ \/ /\ conn' = [ConnSend(conn) EXCEPT !.recvs = @ + 1]
                /\ op' = "command"
             \/ /\ conn' = [ConnClosed(ConnSend(conn), "session") EXCEPT !.recvs = @ + 1]
                /\ op' = "QUIT"
       \/ /\ conn.sock # "closed"
          /\ conn' = [ConnClosed(conn, "session") EXCEPT !.session = "ended"]
          /\ op' \in {"disconnect", "timeout"}
    /\ ConnUnchanged

ConnNext ==
    \/ ConnFinishRequest
    \/ ConnShutdownRequest
    \/ ConnCloseRequest
    \/ ConnGreeting
    \/ ConnRecv

ConnSpec == ConnInit /\ [][ConnNext]_vars

-----------------------------------------------------------------------------
(* CatchAllUDPService (catch_all.py) after a successful start(): the serve  *)
(* thread runs _serve while another thread calls stop().  Each action is    *)
(* one statement of one of the two threads; self._sock is "open", "closed"  *)
(* (a closed socket object) or "none" (None).                               *)

NewUdp ==
    [built |-> TRUE, sock |-> "open", stop_event |-> FALSE,
     stop |-> "idle",     \* the thread in stop(): the statement it is at
     serve |-> "while",   \* the serve thread: the statement it is at
     handled |-> 0,       \* datagrams answered
     caught |-> 0]        \* exceptions caught by the loop's except clause

UdpInit ==
    /\ udp = NewUdp
    /\ op = "none"
    /\ cfg = BaseConfig
    /\ valid = NoValid
    /\ conf = NoConf
    /\ conn = NoConn
    /\ ProtocolsIdle
    /\ OrchestratorIdle

UdpUnchanged ==
    /\ UNCHANGED <<valid, conf, conn>>
    /\ RestUnchanged

\* _serve: while not self._stop_event.is_set()
UdpServeWhile ==
    /\ udp.serve = "while"
    /\ udp' = [udp EXCEPT !.serve = IF udp.stop_event THEN "returned" ELSE "select"]
    /\ op' = "while"
    /\ UdpUnchanged

\* _serve: ready = select.select([self._sock], [], [], 1.0), outside the try
\* block.  With None in the list select raises TypeError, with a closed
\* socket ValueError; otherwise a datagram is waiting or the second passes.
UdpServeSelect ==
    /\ udp.serve = "select"
    /\ \/ /\ udp.sock # "open"
          /\ udp' = [udp EXCEPT !.serve = "raised"]
       \/ /\ udp.sock = "open"
          /\ udp' = [udp EXCEPT !.serve = "while"]
       \/ /\ udp.sock = "open"
          /\ udp.handled < MaxRecv
          /\ udp' = [udp EXCEPT !.serve = "recvfrom"]
    /\ op' = "select"
    /\ UdpUnchanged

\* _serve: data, addr = self._sock.recvfrom(4096), inside try / except Exception
UdpServeRecvfrom ==
    /\ udp.serve = "recvfrom"
    /\ udp' = IF udp.sock = "open" THEN [udp EXCEPT !.serve = "sendto"]
              ELSE [udp EXCEPT !.serve = "while", !.caught = @ + 1]
    /\ op' = "recvfrom"
    /\ UdpUnchanged

\* _serve: self._sock.sendto(b"OK\r\n", addr), inside the same try
UdpServeSendto ==
    /\ udp.serve = "sendto"
    /\ udp' = IF udp.sock = "open"
              THEN [udp EXCEPT !.serve = "while", !.handled = @ + 1]
              ELSE [udp EXCEPT !.serve = "while", !.caught = @ + 1]
    /\ op' = "sendto"
    /\ UdpUnchanged

\* stop: self._stop_event.set()
UdpStopSet ==
    /\ udp.stop = "idle"
    /\ udp' = [udp EXCEPT !.stop_event = TRUE, !.stop = "close"]
    /\ op' = "set"
    /\ UdpUnchanged

\* stop: if self._sock: self._sock.close()
UdpStopClose ==
    /\ udp.stop = "close"
    /\ udp' = [udp EXCEPT !.sock = IF @ = "open" THEN "closed" ELSE @,
                          !.stop = IF udp.sock = "none" THEN "returned" ELSE "clear"]
    /\ op' = "close"
    /\ UdpUnchanged

\* stop: self._sock = None
UdpStopClear ==
    /\ udp.stop = "clear"
    /\ udp' = [udp EXCEPT !.sock = "none", !.stop = "returned"]
    /\ op' = "clear"
    /\ UdpUnchanged

UdpNext ==
    \/ UdpServeWhile
    \/ UdpServeSelect
    \/ UdpServeRecvfrom
    \/ UdpServeSendto
    \/ UdpStopSet
    \/ UdpStopClose
    \/ UdpStopClear

UdpSpec == UdpInit /\ [][UdpNext]_vars

-----------------------------------------------------------------------------
(* Properties                                                               *)

\* positions in the table of the rules carrying the NOTTHENET comment
OwnedRules(tbl) == {i \in 1..Len(tbl) : tbl[i].comment = RULE_COMMENT}

StartReturned == pc = "idle" /\ op = "start" /\ ret \in {"true", "false"}

StopEnded == pc = "idle" /\ op = "stop"

\* C1: after any sequence of start() and stop() calls that ends with a
\* completed stop(), the rule table holds no rule added by the orchestrator.
C1_NoOwnedRuleAfterStop ==
    (StopEnded /\ ret = "done") => OwnedRules(table) = {}

\* C2: whenever a rule owned by the orchestrator is in the rule table, the
\* running flag is true.  Stated for the states between calls, where no
\* start() or stop() is half-way through.
C2_RulesOnlyWhileRunning ==
    (pc = "idle" /\ OwnedRules(table) # {}) => running

\* C3: a start() in which no stub started returns false and has installed no
\* redirect rule.
C3_NoRulesWhenNoStubStarted ==
    (StartReturned /\ validate_config(cfg) = <<>> /\ started = <<>>)
        => (ret = "false" /\ ~rulesInstalled)

\* C4: when validate() returns an error, start() returns false without having
\* started a stub, installed a rule or dropped privileges, and leaves the
\* service collection, the redirector handle, the running flag, the rule table
\* and the effective user as they were.
C4_ValidationFailsClosed ==
    [][ (op' = "start" /\ validate_config(cfg') # <<>>) =>
            /\ UNCHANGED <<services, iptables, running, table, saveFile, euid>>
            /\ attempted' = {}
            /\ phasesDone' = {}
            /\ pc' \in {"validate", "idle"}
            /\ (pc' = "idle" => ret' = "false") ]_vars

\* C4 witness: start() was rejected on an orchestrator that an earlier start()
\* had brought up.
C4_Witness ==
    /\ StartReturned /\ validate_config(cfg) # <<>> /\ ret = "false"
    /\ services # <<>> /\ running

\* C5: within a start() that passes validation, the rule table changes only
\* after every stub's start() has been invoked and before the privilege drop,
\* and the effective user changes only after the rule-installation statement.
C5_BindThenRulesThenDrop ==
    [][ /\ (op = "start" /\ table' # table) =>
                (attempted = Stubs /\ "drop" \notin phasesDone)
        /\ (euid' # euid) =>
                (op = "start" /\ attempted = Stubs /\ "iptables" \in phasesDone) ]_vars

\* C5 witness: a start() that installed rules and then dropped privileges.
C5_Witness ==
    /\ op = "start" /\ pc = "finish" /\ rulesInstalled /\ euid = "user"
    /\ started # <<>>

\* C6: within stop(), remove_rules() is invoked and the rule table changes only
\* after stop() has been invoked on every stub of the collection, and when the
\* handle was set remove_rules() has been invoked by the time stop() ends,
\* whether or not a stub's stop() raised.
C6_StubsStoppedBeforeRulesRemoved ==
    [][ /\ (op = "stop" /\ pc # "idle" /\ (table' # table \/ removal' # removal))
                => stopCalled = Names(snapshot)
        /\ (op' = "stop" /\ pc' = "idle" /\ hadHandle') => removal' # "none" ]_vars

\* C6 witness: a stop() in which a stub's stop() raised and the rules were
\* removed all the same.
C6_Witness ==
    /\ StopEnded /\ stopRaised /\ hadHandle /\ removal = "removed"
    /\ OwnedRules(table) = {}

\* C7: stop() returns normally whatever stubs raise; the stub loop is left only
\* when stop() has been invoked on every stub of the collection; afterwards the
\* collection is empty, the handle cleared and the running flag false.
C7_StopAlwaysCompletes ==
    [][ /\ (pc = "stop_stubs" /\ pc' # "stop_stubs") => stopCalled' = Names(snapshot)
        /\ (op' = "stop" /\ pc' = "idle") =>
                (ret' = "done" /\ services' = <<>> /\ ~iptables'.present /\ ~running') ]_vars

\* C7 witness: a completed stop() of a running orchestrator during which a
\* stub's stop() raised.
C7_Witness ==
    StopEnded /\ ret = "done" /\ stopRaised /\ lastCall = "true"

\* C8: a stop() that follows a completed stop() changes neither the
\* orchestrator's state nor the rule table, and a stop() that follows no call,
\* a start() that returned false or another stop() completes without error.
C8_StopIdempotent ==
    [][ /\ (op' = "stop" /\ lastCall' = "done") =>
                UNCHANGED <<services, iptables, running, table, saveFile, euid>>
        /\ (op' = "stop" /\ pc' = "idle" /\ lastCall' \in {"none", "false", "done"})
                => ret' = "done" ]_vars

\* C8 witness: a second stop() completed after the stop() of a started
\* orchestrator.
C8_Witness ==
    StopEnded /\ ret = "done" /\ lastCall = "done" /\ nStarts > 0

\* C9: whatever stubs fail, by the time a start() that passed validation ends,
\* every stub's start() has been invoked and every stub that bound is in the
\* collection.
C9_EveryStubAttempted ==
    (pc = "idle" /\ op = "start" /\ validate_config(cfg) = <<>>) =>
        /\ attempted = Stubs
        /\ \A i \in 1..Len(started) : started[i] \in Names(services)

\* C10: start() returns true iff a stub started during that call, and every
\* stub that started during the call is reported live by status().
C10_ResultAndStatus ==
    StartReturned =>
        /\ (ret = "true") <=> (started # <<>>)
        /\ \A i \in 1..Len(started) : <<started[i], TRUE>> \in status

\* C10 witness: a second start() without stop() in between bound some stubs
\* and returned true while the collection also holds stubs of the first.
C10_Witness ==
    /\ StartReturned /\ ret = "true" /\ started # <<>>
    /\ Len(services) > Len(started)
    /\ \A i \in 1..Len(started) : <<started[i], TRUE>> \in status

SeqToSet(q) == {q[i] : i \in 1..Len(q)}

\* the ports on which the http/https/smtp/pop3/imap/ftp stubs of the
\* collection are bound and live
LivePortMapPorts(svcs) ==
    {svcs[i].port : i \in {k \in 1..Len(svcs) :
                              svcs[k].name \in SeqToSet(PortMapOrder) /\ svcs[k].running}}

ListeningNow(proto, port) ==
    \E i \in 1..Len(services) :
        /\ services[i].name \in SeqToSet(started)
        /\ services[i].running
        /\ services[i].port = port
        /\ proto \in StubProtos(services[i].name)

\* C12: every redirect rule start() has installed redirects to a port on which
\* a stub started by this start() is listening.
C12_RedirectsOnlyToListeningPorts ==
    (op = "start" /\ handed.given) =>
        \A i \in 1..Len(iptables.rules_applied) :
            LET r == iptables.rules_applied[i]
            IN  r.target = "REDIRECT" => ListeningNow(r.proto, r.to)

\* C13: no call is left by an exception: whenever start() or stop() has ended,
\* it has returned.
C13_NoExceptionEscapes ==
    pc = "idle" => ret # "raised"

-----------------------------------------------------------------------------
(* Properties of the Redirector (RedirectorSpec)                            *)

\* how many times rule r occurs in the table
Count(tbl, r) == Cardinality({i \in 1..Len(tbl) : tbl[i] = r})

C15_ApplyRefusedWithoutRoot ==
    [][ (op' = "apply" /\ nStarts' = nStarts + 1 /\ euid # "root") =>
            /\ ret' = "false"
            /\ UNCHANGED <<table, saveFile, iptables>>
            /\ rlog'.issued = <<>> ]_vars

\* C15 witness: a manager with auto_iptables on was asked to apply rules as a
\* non-root user; nothing is tracked and no snapshot exists.
C15_Witness ==
    /\ op = "apply" /\ euid = "user" /\ ret = "false" /\ iptables.enabled
    /\ iptables.rules_applied = <<>> /\ ~saveFile.exists
    /\ OwnedRules(table) = {}

IsCatchAll(r) == r.target = "REDIRECT" /\ r.dport = 0

\* C16: after an apply_rules() that was not refused, the snapshot it captured
\* is the table as it was before the first rule was added, the table is that
\* table followed by the added rules in the order of their commands, and every
\* exclusion (RETURN) command precedes the catch-all redirect command.
C16_SnapshotFirstExclusionsBeforeCatchAll ==
    (op = "apply" /\ ~rlog.refused) =>
        /\ iptables.saved => (saveFile.exists /\ saveFile.content = rlog.pre)
        /\ table = rlog.pre \o OkRules(rlog.issued)
        /\ \A i, j \in 1..Len(rlog.issued) :
              (rlog.issued[i].rule.target = "RETURN" /\ IsCatchAll(rlog.issued[j].rule))
                  => i < j

\* C16 witness: an apply_rules() that captured the snapshot of a non-empty
\* table and added an exclusion rule and the catch-all rule.
C16_Witness ==
    /\ op = "apply" /\ ~rlog.refused /\ iptables.saved /\ rlog.pre # <<>>
    /\ \E i, j \in 1..Len(rlog.issued) :
          /\ rlog.issued[i].ok /\ rlog.issued[i].rule.target = "RETURN"
          /\ rlog.issued[j].ok /\ IsCatchAll(rlog.issued[j].rule)

\* C17: the tracked-rule list is the sequence, in command order, of the rules
\* whose add command succeeded; every requested rule's add command is run,
\* also after one that failed; every tracked rule carries the NOTTHENET
\* comment; the fallback removal deletes exactly the tracked rules, last added
\* first.
C17_TrackedRulesExact ==
    /\ iptables.rules_applied = OkRules(rlog.adds)
    /\ \A i \in 1..Len(iptables.rules_applied) :
          iptables.rules_applied[i].comment = RULE_COMMENT
    /\ (op = "apply" /\ ~rlog.refused) =>
          [i \in 1..Len(rlog.issued) |-> rlog.issued[i].rule] = rlog.want
    /\ (op = "remove" /\ rlog.path = "fallback") =>
          /\ Len(rlog.dels) = Len(rlog.removed)
          /\ \A i \in 1..Len(rlog.dels) :
                rlog.dels[i] = rlog.removed[Len(rlog.removed) - i + 1]

\* C17 witness: a fallback removal of several tracked rules after an
\* apply_rules() in which an add command failed and a later one succeeded.
C17_Witness ==
    /\ op = "remove" /\ rlog.path = "fallback" /\ Len(rlog.dels) >= 2
    /\ \E i, j \in 1..Len(rlog.issued) :
          i < j /\ ~rlog.issued[i].ok /\ rlog.issued[j].ok

-----------------------------------------------------------------------------
(* Properties of a protocol stub (StubSpec)                                 *)

\* C18: in every state between calls the stub's running flag is true iff it
\* holds an open socket and its serve loop is running, and after a stop() that
\* returned the socket is closed and the flag is false.
C18_FlagIffListening ==
    /\ StubRunning(stub) <=> (stub.sock /\ stub.loop)
    /\ (op = "stub_stop" /\ ret = "done") => (~stub.sock /\ ~StubRunning(stub))

-----------------------------------------------------------------------------
(* Properties of a client session (SessionSpec)                             *)

FileNamesRandom ==
    /\ \A i \in 1..Len(dir.files) : dir.files[i].name.kind = "uuid"
    /\ \A i, j \in 1..Len(dir.files) :
          dir.files[i].name = dir.files[j].name => i = j

C20_SessionBytesBounded ==
    sess.proto \in SessionProtos =>
        /\ sess.buf <= MAX_EMAIL_SIZE_BYTES + RecvSize(sess.proto)
        /\ sess.current_size <= MAX_EMAIL_SIZE_BYTES

-----------------------------------------------------------------------------
(* Properties of an FTP control session (FtpSpec)                           *)

\* the reply codes the last command sent on the control connection
Replies(f) ==
    LET sends == SelectSeq(f.events, LAMBDA x : x.e = "send")
    IN  [i \in 1..Len(sends) |-> sends[i].code]

\* the last command was a STOR whose data connection was accepted with
\* uploads enabled, and none of its I/O calls raised
Uploaded == ftp.cmd = "STOR" /\ ftp.data # "none" /\ ftp.upload_dir /\ ~ftp.fault

C21_WitnessFull ==
    /\ ftp.open /\ Uploaded /\ ftp.before > FTP_MAX_DISK_USAGE_BYTES
    /\ ftp.offered > 0

\* C22: when the handling of a command has ended, the data connection it
\* accepted has been closed.
C22_DataConnectionClosed ==
    ftp.cmd # "none" => ftp.data # "open"

\* C23: no command opens an outbound connection; PORT is answered with the
\* refusal 500 and leaves listener and data channel alone; a data connection
\* only comes from accept() on the listener a PASV opened.
C23_NoOutboundConnection ==
    [][ /\ \A i \in 1..Len(ftp'.events) : ftp'.events[i].e # "connect"
        /\ ftp'.cmd = "PORT" =>
              /\ Replies(ftp') = <<500>>
              /\ ftp'.pasv = ftp.pasv
              /\ ftp'.data = "none"
        /\ ftp'.data # "none" =>
              /\ ftp.pasv
              /\ \E i \in 1..Len(ftp'.events) : ftp'.events[i].e = "accept" ]_vars

\* C23 witness: PORT arrived while a passive listener was open
C23_Witness == ftp.open /\ ftp.cmd = "PORT" /\ ftp.pasv

\* C24: STOR sends 150 before it calls accept() on the passive listener.
C24_ReadyBeforeAccept ==
    ftp.cmd = "STOR" =>
        /\ ftp.events[1] = Send(150)
        /\ \A i \in 1..Len(ftp.events) : ftp.events[i].e = "accept" => i > 1

\* C24 witness: a STOR that called accept()
C24_Witness ==
    /\ ftp.open /\ ftp.cmd = "STOR"
    /\ \E i \in 1..Len(ftp.events) : ftp.events[i].e = "accept"

-----------------------------------------------------------------------------
(* Properties of the DNS resolver (DnsSpec)                                 *)

\* two names are the same up to letter case and trailing dots
SameName(a, b) == RStripDots(Lower(a)) = RStripDots(Lower(b))

\* the configured custom records the query name matches
Matching == {i \in 1..Len(dns.records) : SameName(dns.records[i].name, dns.qname)}

-----------------------------------------------------------------------------
(* Properties of the HTTP responder (HttpSpec)                              *)

HasHeader(r, name, value) ==
    \E i \in 1..Len(r.headers) : r.headers[i] = Header(name, value)

\* the request is one the public-IP spoof answers: a spoof IP is configured
\* and the Host header names a known IP-check service
IpCheckRequest ==
    /\ http.spoof_ip # ""
    /\ http.host # <<>>
    /\ \E n \in IP_CHECK_HOSTS : HostName(http.host) = n

\* C26: the response to a request, whatever its method and path, carries the
\* configured status code, the configured body byte for byte, the configured
\* Server header and Connection: close (requests answered by the public-IP
\* spoof aside).
C26_ConfiguredResponse ==
    (http.asked /\ ~IpCheckRequest) =>
        /\ http.response.status = http.code
        /\ http.response.body = Utf8(http.body)
        /\ HasHeader(http.response, "Server", http.server_header)
        /\ HasHeader(http.response, "Connection", "close")

-----------------------------------------------------------------------------
(* Properties of a threaded server's handlers (PoolSpec)                    *)

\* C27: in an HTTP or HTTPS server at most MAX_WORKER_THREADS request handlers
\* execute at any instant, however many connections have been accepted.
C27_HandlersBoundedByPool ==
    pool.kind \in PooledServers => pool.active <= MAX_WORKER_THREADS

\* C27 witness: every worker is busy and accepted connections are waiting
C27_Witness ==
    /\ pool.kind \in PooledServers
    /\ pool.active = MAX_WORKER_THREADS
    /\ pool.queue + pool.active > MAX_WORKER_THREADS + 1

\* C29: the TCP catch-all server serves at most MAX_CONNECTIONS connections
\* at any instant, however many clients connect.
C29_CatchAllConnectionsBounded ==
    pool.kind = "catch_tcp" => pool.active <= MAX_CONNECTIONS

-----------------------------------------------------------------------------
(* Properties of sanitize_log_string and the greeting (TextSpec)            *)

\* v holds an ANSI escape sequence: ESC [ parameters letter
HasAnsi(v) == \E i \in 1..Len(v) : AnsiMatch(SubSeq(v, i, Len(v))) > 0

\* C28: the greeting the SMTP and FTP stubs send is the configured banner
\* followed by CR LF, byte for byte.
C28_GreetingIsBanner ==
    text.kind = "banner" => text.sent = Bytes(text.input) \o <<13, 10>>

\* C30: what sanitize_log_string returns holds no CR, LF, NUL or ANSI escape
\* sequence and is at most max_length characters long.
C30_SanitizedAndBounded ==
    text.kind = "sanitize" =>
        /\ \A i \in 1..Len(text.output) : text.output[i] \notin {"CR", "LF", "NUL"}
        /\ ~HasAnsi(text.output)
        /\ Len(text.output) <= text.max_length

-----------------------------------------------------------------------------
(* Properties of validate()                                                 *)

InRange(port) == port \in 1..MAX_PORT

\* the checks a configuration violates, each named by the key it is about
ViolatedChecks(c) ==
    (IF c.bind_ip \in ValidIPs \cup {"::"} THEN {} ELSE {"general.bind_ip"})
    \cup (IF c.redirect_ip \in ValidIPs THEN {} ELSE {"general.redirect_ip"})
    \cup {s \in DOMAIN c.port : c.enabled[s] = "true" /\ ~InRange(c.port[s])}

\* C31: validate() returns exactly one error for each violated check (bind
\* IP, redirect IP, and the port of each protocol whose enabled flag is
\* true), so the list is empty iff nothing is violated and a first
\* violation does not hide the later ones.
C31_OneErrorPerViolation ==
    valid.called =>
        /\ Len(valid.errors) = Cardinality(ViolatedChecks(cfg))
        /\ {valid.errors[i] : i \in 1..Len(valid.errors)} = ViolatedChecks(cfg)
        /\ (valid.errors = <<>>) <=> (ViolatedChecks(cfg) = {})

\* validate() has reported a bad bind IP, a bad redirect IP and two bad ports
C31_Witness ==
    /\ valid.called
    /\ Len(valid.errors) >= 4
    /\ {"general.bind_ip", "general.redirect_ip", "http", "dns"}
         \subseteq {valid.errors[i] : i \in 1..Len(valid.errors)}

\* C39: whenever validate() returns no errors, every stub start() goes on to
\* bind (own enabled flag true, a missing flag counting as enabled, the
\* catch-all stubs included) has a port in [1,65535].
C39_BoundPortsInRange ==
    (valid.called /\ valid.errors = <<>>) =>
        \A s \in Stubs : StubEnabled(cfg, s) => InRange(StubPort(cfg, s))

-----------------------------------------------------------------------------
(* Properties of Config                                                     *)

\* reset_to_defaults() leaves the configuration equal to the loaded data
ResetRestoresLoaded ==
    op = "reset" => Content(conf.data, conf.heap) = conf.loaded

\* C32: after any sequence of set(), set_section() and mutations of
\* dictionaries returned by as_dict(), reset_to_defaults() makes the
\* configuration equal to the data loaded at construction, and a mutation
\* of a dictionary returned by as_dict() leaves the configuration as it was.
C32_ResetAndCopiesIndependent ==
    /\ ResetRestoresLoaded
    /\ op = "mutate" => ~conf.changed

-----------------------------------------------------------------------------
(* Properties of an accepted SMTP connection                                *)

SessionServing == conn.accepted /\ conn.session \in {"run", "recv"}

\* C33: an accepted SMTP connection is closed only by its own session: under
\* every interleaving of the server thread and the session thread, the
\* server has not shut down or closed the socket while the session thread
\* is still serving it.
C33_ClosedOnlyBySession ==
    SessionServing => ~(conn.sock # "open" /\ conn.by = "server")

-----------------------------------------------------------------------------
(* Properties of the FTP session: passive listeners, oversized uploads      *)

\* the last command was a STOR that was received into a file and ran over
\* the per-file cap
UploadOverCap ==
    /\ ftp.open /\ ftp.cmd = "STOR" /\ ftp.data = "closed"
    /\ ftp.upload_dir /\ ~ftp.fault
    /\ ftp.before <= FTP_MAX_DISK_USAGE_BYTES
    /\ ftp.offered > MAX_UPLOAD_SIZE_BYTES

\* C36: when an FTP upload exceeds the per-file cap, the session has read
\* the data connection to the end of what the client sent (discarding the
\* excess) before it sends its completion reply.
C36_ExcessDrained ==
    UploadOverCap => ftp.read = ftp.offered

\* C37: a session holds at most one open passive listening socket at any
\* time, and none that it opened is still open after the session has ended.
C37_OnePassiveListener ==
    ftp.open \/ ftp.ended =>
        /\ ftp.peak <= 1
        /\ ftp.listeners <= 1
        /\ ftp.ended => ftp.listeners = 0

-----------------------------------------------------------------------------
(* Properties of the mail and FTP sessions: QUIT, SMTP data mode            *)

\* C34: once an SMTP or FTP session has handled QUIT it handles no further
\* client line: lines that arrive behind QUIT, in the same chunk too, change
\* no state and save no file.
C34_NothingAfterQuit ==
    sess.proto \in {"smtp", "ftp"} => (sess.late = 0 /\ sess.late_saved = 0)

\* in command mode the message buffer and its size counter are empty / zero
CommandModeEmpty ==
    (sess.proto = "smtp" /\ ~sess.data_mode) =>
        (sess.lines = 0 /\ sess.current_size = 0)

\* one line handled by an SMTP session
SmtpLineStep ==
    sess.proto = "smtp" /\ op' = "line" /\ sess'.recvs = sess.recvs + 1

\* DATA enters data mode; there a lone "." returns to command mode with the
\* buffer cleared and any other line leaves the session in data mode, open;
\* RSET and unrecognised commands leave the buffer empty
ModeStep ==
    /\ (~sess.data_mode /\ sess'.line = "DATA") => sess'.data_mode
    /\ (~sess.data_mode /\ sess'.line \in {"RSET", "TEXT", "EMPTY"}) =>
           (~sess'.data_mode /\ sess'.lines = 0 /\ sess'.current_size = 0)
    /\ (sess.data_mode /\ sess'.line = "DOT") =>
           (~sess'.data_mode /\ sess'.lines = 0 /\ sess'.current_size = 0)
    /\ (sess.data_mode /\ sess'.line # "DOT") => (sess'.data_mode /\ sess'.open)

\* the original statement of C35: in data mode every line except a lone "."
\* is appended to the message
C35_EveryLineAppended ==
    [][ SmtpLineStep =>
          /\ ModeStep
          /\ (sess.data_mode /\ sess'.line # "DOT") =>
                 (sess'.lines = sess.lines + 1 /\ sess'.current_size >= sess.current_size)
      ]_vars

\* C35, amended: DATA switches to data mode, in which a line other than a
\* lone "." is never interpreted as a command and is appended as message
\* data while the accumulated size is below MAX_EMAIL_SIZE_BYTES (dropped
\* once it is not); the lone "." returns to command mode with the buffer
\* cleared; in command mode buffer and size counter are empty / zero.
C35_DataModeUnderCap ==
    /\ []CommandModeEmpty
    /\ [][ SmtpLineStep =>
             /\ ModeStep
             /\ (sess.data_mode /\ sess'.line # "DOT") =>
                    IF sess.current_size < MAX_EMAIL_SIZE_BYTES
                    THEN /\ sess'.lines = sess.lines + 1
                         /\ sess'.current_size >= sess.current_size
                    ELSE /\ sess'.lines = sess.lines
                         /\ sess'.current_size = sess.current_size
         ]_vars

\* C35 witness: in data mode the line QUIT was taken as message data, the
\* session is still open and in data mode
C35_Witness ==
    /\ sess.proto = "smtp" /\ sess.open /\ sess.data_mode
    /\ sess.line = "QUIT" /\ sess.lines >= 2

\* a line was dropped in data mode because the message had reached the cap
C35_WitnessDropped ==
    /\ sess.proto = "smtp" /\ sess.open /\ sess.data_mode
    /\ sess.line = "TEXT" /\ sess.lines = 1
    /\ sess.current_size >= MAX_EMAIL_SIZE_BYTES /\ sess.recvs >= 4

-----------------------------------------------------------------------------
(* Properties of the orchestrator's running flag                            *)

\* C38: after any sequence of start() and stop() calls, start() called again
\* without a stop() in between included, the running flag is true iff the
\* service collection holds at least one stub.  Stated for the states
\* between calls, and for calls that returned: no start() was left by an
\* exception and no stub's stop() raised.
C38_RunningIffServices ==
    (pc = "idle" /\ ret # "raised" /\ lastCall # "raised" /\ ~stopRaised)
        => (running <=> services # <<>>)

-----------------------------------------------------------------------------
(* Properties of CatchAllUDPService                                         *)

\* C40: under every interleaving of stop() with the serve loop, the serve
\* thread is never ended by an unhandled exception: the loop uses a socket
\* that stop() has closed or cleared only inside its error handling.
C40_ServeThreadNeverRaises ==
    udp.built => udp.serve # "raised"

====
